---- MODULE Spec2Model ----
(***************************************************************************)
(* The scheduler of src/src/core/scheduler.ts: the global clock, the       *)
(* `scheduled` flag, the tree of Queue objects with their three slots,     *)
(* and the control flow of flushSync / Queue.flush / Queue.run / runQueue. *)
(*                                                                         *)
(* The call stack of the single JavaScript thread is the variable `stack`: *)
(* one frame per active call of flushSync, flush or run.  A task is a      *)
(* closure; what it does when it is called is an input, chosen each time   *)
(* it runs: nothing, one enqueue call, a throw, or a call of               *)
(* globalQueue.flush().                                                    *)
(***************************************************************************)
EXTENDS Integers, Sequences, FiniteSets, TLC

\* src/src/core/scheduler.ts:1-5 (slot indices of Queue._queues)
EFFECT_PURE == 0
EFFECT_RENDER == 1
EFFECT_USER == 2
Tiers == {EFFECT_PURE, EFFECT_RENDER, EFFECT_USER}

\* __DEV__ build: flushSync counts its iterations (scheduler.ts:97)
DEV == TRUE
\* iteration bound of flushSync, 1e5 in the source, scaled down
LoopLimit == 3

\* bounds of the model
MaxEnq == 2        \* enqueue calls whose task is still held by a queue
MaxClock == 1      \* flushSync is not entered once the clock is this high
MaxMicro == 1      \* flushSync microtasks waiting in the host

\* the Queue objects: the global queue and two boundary queues
Root == "global"
Queues == {"global", "qa", "qb"}
NoQueue == "none"
Ids == 1..MaxEnq

VARIABLES
  clock,        \* let clock (scheduler.ts:7)
  scheduled,    \* let scheduled (scheduler.ts:15)
  running,      \* Queue._running, per queue
  queues,       \* Queue._queues, per queue: <<pure, render, user>>
  children,     \* Queue._children, per queue
  parent,       \* Queue._parent, per queue
  microtasks,   \* number of flushSync callbacks given to queueMicrotask
  stack,        \* call stack: frames of flushSync, flush and run
  \* history
  runs,         \* per enqueue call: how often its task has run to completion
  lastRun,      \* the latest task execution of the flush in progress
  fl,           \* the flush in progress: what it has done so far
  lastFlush,    \* how the latest flush ended
  failedDone,   \* tasks that completed in a flush which an exception ended
  reqs,         \* queueMicrotask calls since the latest flush began
  event,        \* the latest step of interest
  \* the layers built on the scheduler
  fx,           \* createEffect / createRenderEffect: the closure variables
  ao,           \* unwrapPromise / unwrapAsyncIterator / createAsync: the
                \* asynchronous operations in flight
  ev,           \* createEvent: the Subjects and what their observers got
  gr,           \* createSignal / createMemo: two signals, a memo of both and
                \* a computation that reads the memo
  nt,           \* history: the latest call of notify from outside the queues
  pl            \* the operator chains of the event layer: createListener,
                \* makeHandler, createAsyncEvent

hist == <<runs, lastRun, fl, lastFlush, failedDone, reqs>>
vars == <<clock, scheduled, running, queues, children, parent, microtasks,
          stack, runs, lastRun, fl, lastFlush, failedDone, reqs, event, fx, ao,
          ev, gr, nt, pl>>
\* the state of the layers above the scheduler
ext == <<fx, ao, ev, gr, nt, pl>>

NoRun == [id |-> 0, tier |-> EFFECT_PURE, slot |-> EFFECT_PURE]
NoFlush == [how |-> "none", n |-> 0, delta |-> 0, pure |-> FALSE, left |-> 0,
            dropped |-> 0]
\* the operator chains right after their construction: no event emitted,
\* no callback called
MaxEvents == 3     \* events that arrive at the source of a chain
\* asyncFn was not called for the event
NoPromise == [st |-> "none", root |-> 0, aborted |-> FALSE, got |-> "none",
              latest |-> 0]
\* getContext() before any withContext: undefined
NoContext == [retry |-> 0, dispose |-> 0]
NoPl == [n |-> 0, log |-> <<>>, compute |-> 0, dirty |-> FALSE,
         cur |-> NoContext, sent |-> <<>>, handed |-> <<>>, ran |-> <<>>,
         down |-> <<>>,
         scope |-> 0, live |-> {}, made |-> 0, cleaned |-> FALSE,
         sight |-> [obs |-> 0, kind |-> "none", val |-> 0, before |-> {},
                    at |-> {}, in |-> 0],
         last |-> 0,
         prom |-> [k \in 1..MaxEvents |-> NoPromise],
         frames |-> <<>>,
         ended |-> [how |-> "none", before |-> NoContext, after |-> NoContext]]
\* no call of notify yet
NoNote == [q |-> NoQueue, args |-> <<>>, calls |-> <<>>, result |-> FALSE]
\* the signals A and B hold 0..MaxVal; nothing has been computed yet
NoSight == [who |-> "none", val |-> 0, a |-> 0, b |-> 0, wrote |-> {},
            flushed |-> FALSE]
NoGraph == [a |-> 0, b |-> 0,
            m |-> 0, ms |-> "DIRTY", mlinked |-> FALSE,
            watch |-> FALSE, w |-> 0, ws |-> "DIRTY", wlinked |-> FALSE,
            wrote |-> {}, seen |-> NoSight]
\* bounds of the asynchronous operations
MaxOps == 2        \* promises or async iterables received
MaxYield == 2      \* values an async iterable yields
Ops == 1..MaxOps
\* an operation that was not started
NoOp == [kind |-> "none", st |-> "idle", how |-> "value", left |-> 0,
         aborted |-> FALSE, registered |-> FALSE, disposed |-> FALSE,
         nexts |-> 0, errors |-> 0, writes |-> 0, waits |-> 0, after |-> 0]

\* bounds of the event layer
MaxObs == 2        \* observers
MaxEmit == 2       \* values emitted
Obs == 1..MaxObs
Emits == 1..MaxEmit
\* the Subjects right after their construction, nothing emitted
NoEv == [hObs |-> {}, eObs |-> {}, mObs |-> {}, mDispose |-> FALSE, sObs |-> <<>>,
         n |-> 0,
         via |-> [k \in Emits |-> "none"],
         due |-> [k \in Emits |-> {}],
         got |-> [o \in Obs |-> [k \in Emits |-> 0]],
         late |-> {},
         waiting |-> FALSE, observers |-> <<>>, acts |-> <<>>, rcv |-> <<>>,
         heard |-> [o \in Obs |-> <<>>]]

\* what the latest call of a compute or effect body did (history)
NoSeen == [src |-> "none", out |-> "ok", by |-> "ok", handled |-> FALSE,
           notified |-> FALSE, raised |-> FALSE, twice |-> FALSE]
\* no effect has been created
NoFx == [kind |-> "none", handler |-> FALSE, current |-> 0, prev |-> 0,
         cleanup |-> "none", dirty |-> FALSE, seen |-> NoSeen,
         sent |-> <<>>, told |-> [mask |-> {}, flags |-> {}],
         toldBoth |-> [mask |-> {}, flags |-> {}], lastc |-> "none",
         disposed |-> FALSE, promise |-> [st |-> "pending", val |-> 0],
         outs |-> <<>>]
\* no task was called yet in the run pass in progress
NoLast == [q |-> NoQueue, pos |-> 0]
NoFl == [done |-> {}, pure |-> FALSE, user |-> FALSE, owed |-> {},
         last |-> NoLast]

----------------------------------------------------------------------------
\* helpers on sequences and the tree

RECURSIVE SeqToSet(_)
SeqToSet(s) == IF s = <<>> THEN {} ELSE {Head(s)} \cup SeqToSet(Tail(s))

RECURSIVE IndexOf(_, _, _)
\* Array.prototype.indexOf, 1-based, 0 when absent
IndexOf(s, x, i) ==
  IF i > Len(s) THEN 0 ELSE IF s[i] = x THEN i ELSE IndexOf(s, x, i + 1)

\* Array.prototype.splice(index, 1)
Splice(s, i) == SubSeq(s, 1, i - 1) \o SubSeq(s, i + 1, Len(s))

RECURSIVE Descendants(_, _)
\* the queues that run(type) on q visits: q and everything below it
Descendants(ch, q) ==
  {q} \cup UNION {Descendants(ch, ch[q][k]) : k \in 1..Len(ch[q])}

InTree == Descendants(children, Root)

Top == stack[Len(stack)]
Pop(s) == SubSeq(s, 1, Len(s) - 1)
SetTop(s, f) == [s EXCEPT ![Len(s)] = f]

\* ids of the tasks held by some slot or by the local `effects` array of an
\* active run call
SlotIds(qs) ==
  UNION {{qs[q][k][j].id : j \in 1..Len(qs[q][k])} : q \in Queues, k \in 1..3}
FrameIds(st) ==
  UNION {IF st[n].fn = "run"
           THEN {st[n].effects[j].id : j \in 1..Len(st[n].effects)}
           ELSE {} : n \in 1..Len(st)}
Live(qs, st) == SlotIds(qs) \cup FrameIds(st)

FreeIds == Ids \ Live(queues, stack)
NewId == CHOOSE i \in FreeIds : \A j \in FreeIds : i <= j

\* ids of the tasks that wait in the slot of their tier in a queue of the tree
Pending ==
  UNION {{queues[q][k][j].id : j \in {j \in 1..Len(queues[q][k]) :
                                       queues[q][k][j].tier = k - 1}} :
         q \in InTree, k \in 1..3}

\* the history of an enqueue call is dropped once no array holds its task
Forget(rs, qs, st) == [i \in Ids |-> IF i \in Live(qs, st) THEN rs[i] ELSE 0]

----------------------------------------------------------------------------
\* frames

FlushSyncFrame == [fn |-> "flushSync", count |-> 0]
\* the innermost active flush call
FlushOf(st) == st[CHOOSE n \in 1..Len(st) :
                   /\ st[n].fn = "flush"
                   /\ \A m \in (n + 1)..Len(st) : st[m].fn # "flush"]
\* clock0 and n0 are history: the clock and the number of pending tasks when
\* the call began
FlushFrame(q) == [fn |-> "flush", q |-> q, pc |-> "pure", clock0 |-> clock,
                  n0 |-> Cardinality(Pending)]
RunFrame(q, type) ==
  [fn |-> "run", q |-> q, type |-> type, pc |-> "enter", i |-> 1,
   effects |-> <<>>, c |-> 1, rerun |-> FALSE]

----------------------------------------------------------------------------
Init ==
  /\ clock = 0
  /\ scheduled = FALSE
  /\ running = [q \in Queues |-> FALSE]
  /\ queues = [q \in Queues |-> <<<<>>, <<>>, <<>>>>]
  /\ children = [q \in Queues |-> <<>>]
  /\ parent = [q \in Queues |-> NoQueue]
  /\ microtasks = 0
  /\ stack = <<>>
  /\ runs = [i \in Ids |-> 0]
  /\ lastRun = NoRun
  /\ fl = NoFl
  /\ lastFlush = NoFlush
  /\ failedDone = {}
  /\ reqs = 0
  /\ event = "init"
  /\ fx = NoFx
  /\ ao = [o \in Ops |-> NoOp]
  /\ ev = NoEv
  /\ gr = NoGraph
  /\ nt = NoNote
  /\ pl = NoPl

----------------------------------------------------------------------------
\* schedule without the test of line 17
ScheduleAgain == <<TRUE, IF ~running[Root] THEN microtasks + 1 ELSE microtasks>>
\* schedule(), scheduler.ts:16-20: the new <<scheduled, microtasks>>
Schedule ==
  IF scheduled THEN <<scheduled, microtasks>>
  ELSE <<TRUE, IF ~running[Root] THEN microtasks + 1 ELSE microtasks>>

\* Queue.enqueue, scheduler.ts:39-43: the two pushes
Push(qs, q, type, e) ==
  [qs EXCEPT ![q] =
     [@ EXCEPT ![1] = Append(@, e),
               ![type + 1] = IF type # EFFECT_PURE THEN Append(@, e) ELSE @]]

\* Queue.enqueue(type, node) on queue q; the node is a new closure
Enqueue(q, type) ==
  /\ FreeIds # {}
  /\ queues' = Push(queues, q, type, [id |-> NewId, tier |-> type])
  /\ scheduled' = Schedule[1]
  /\ microtasks' = Schedule[2]
  /\ reqs' = reqs + (Schedule[2] - microtasks)

\* a task's body is one of: nothing, an enqueue call, a throw, a call of
\* globalQueue.flush().  Tasks enqueue on queues of the tree.

\* flush without the test of line 62
FlushGuardOff(q) == FALSE
\* guard of Queue.flush, scheduler.ts:62
FlushGuard(q) == running[q]

\* incrementClock that leaves the clock alone
IncrementClockNot == clock
\* incrementClock, scheduler.ts:11-13
IncrementClock == clock + 1

\* `finally { this._running = false }` of every flush call that an exception
\* leaves, scheduler.ts:70-72
Unwind(st) ==
  [q \in Queues |->
     IF \E n \in 1..Len(st) : st[n].fn = "flush" /\ st[n].q = q
       THEN FALSE ELSE running[q]]

\* the array that runQueue iterates in frame f: the live pure slot
\* (scheduler.ts:47) or the detached `effects` array (scheduler.ts:50-52)
Arr(f) == IF f.type = EFFECT_PURE THEN queues[f.q][1] ELSE f.effects

InOwn == stack # <<>> /\ Top.fn = "run" /\ Top.pc = "own" /\ Top.i <= Len(Arr(Top))

\* the task that queue[i]() calls, scheduler.ts:104
Cur == Arr(Top)[Top.i]
\* it runs in the phase of its own tier
Own == Cur.tier = Top.type

Advance == SetTop(stack, [Top EXCEPT !.i = @ + 1])

\* history: a flush call begins
Begin ==
  /\ fl' = [NoFl EXCEPT !.owed = Pending]
  /\ lastFlush' = NoFlush
  /\ lastRun' = NoRun
  /\ reqs' = 0
  /\ UNCHANGED <<runs, failedDone>>

\* history: queue[i]() has returned
Ran ==
  /\ runs' = Forget([runs EXCEPT ![Cur.id] = IF @ < 2 THEN @ + 1 ELSE @], queues', stack')
  /\ lastRun' = [id |-> Cur.id, tier |-> Cur.tier, slot |-> Top.type]
  /\ fl' = [done |-> IF Own THEN fl.done \cup {Cur.id} ELSE fl.done,
            pure |-> fl.pure \/ Top.type = EFFECT_PURE,
            user |-> fl.user \/ Cur.tier = EFFECT_USER,
            owed |-> IF Own THEN fl.owed \ {Cur.id} ELSE fl.owed,
            last |-> [q |-> Top.q, pos |-> Top.i]]
  /\ UNCHANGED <<lastFlush, failedDone>>

\* history: queue[i]() has thrown
Threw ==
  /\ runs' = Forget(runs, queues', stack')
  /\ lastRun' = [id |-> Cur.id, tier |-> Cur.tier, slot |-> Top.type]
  /\ lastFlush' = [how |-> "throw",
                   n |-> FlushOf(stack).n0,
                   delta |-> clock - FlushOf(stack).clock0,
                   pure |-> fl.pure \/ Top.type = EFFECT_PURE,
                   left |-> Cardinality(fl.owed),
                   dropped |-> IF Top.type = EFFECT_PURE THEN 0
                               ELSE Len(Top.effects) - Top.i]
  /\ failedDone' = (failedDone \cup fl.done) \cap Live(queues', stack')
  /\ fl' = NoFl
  /\ UNCHANGED reqs

\* history: arrays were dropped
Dropped ==
  /\ runs' = Forget(runs, queues', stack')
  /\ failedDone' = failedDone \cap Live(queues', stack')
  /\ fl' = [fl EXCEPT !.done = @ \cap Live(queues', stack')]
  /\ UNCHANGED <<lastRun, lastFlush, reqs>>

\* queue[i]() where the task does nothing
TaskNop ==
  /\ InOwn
  /\ UNCHANGED <<clock, scheduled, running, queues, children, parent, microtasks, reqs>>
  /\ stack' = Advance
  /\ Ran
  /\ event' = "step"
  /\ UNCHANGED ext

\* queue[i]() where the task calls q.enqueue(type, node)
TaskEnqueue(q, type) ==
  /\ InOwn
  /\ q \in InTree
  /\ Enqueue(q, type)
  /\ stack' = Advance
  /\ Ran
  /\ event' = "step"
  /\ UNCHANGED ext
  /\ UNCHANGED <<clock, running, children, parent>>

\* queue[i]() where the task throws: the exception leaves runQueue, run,
\* flush (through its finally) and flushSync
TaskThrow ==
  /\ InOwn
  /\ UNCHANGED <<clock, scheduled, queues, children, parent, microtasks>>
  /\ running' = Unwind(stack)
  /\ stack' = <<>>
  /\ Threw
  /\ event' = "throw"
  /\ UNCHANGED ext

\* queue[i]() where the task calls globalQueue.flush(), scheduler.ts:61-63
TaskFlush ==
  /\ InOwn
  /\ UNCHANGED <<clock, scheduled, queues, children, parent, microtasks>>
  /\ IF FlushGuard(Root)
       THEN /\ stack' = Advance
            /\ event' = "suppressed"
            /\ UNCHANGED ext
            /\ Ran
            /\ UNCHANGED <<running, reqs>>
       ELSE /\ stack' = Append(Advance, FlushFrame(Root))
            /\ event' = "step"
            /\ UNCHANGED ext
            /\ running' = [running EXCEPT ![Root] = TRUE]
            /\ Begin

----------------------------------------------------------------------------
\* Queue.run, scheduler.ts:44-60

\* lines 45-53, up to the call of runQueue
RunEnter ==
  /\ stack # <<>> /\ Top.fn = "run" /\ Top.pc = "enter"
  /\ LET q == Top.q
         k == Top.type + 1
     IN IF Len(queues[q][k]) = 0
          THEN /\ stack' = SetTop(stack, [Top EXCEPT !.pc = "children"])
               /\ UNCHANGED queues
          ELSE IF Top.type = EFFECT_PURE
            THEN /\ stack' = SetTop(stack, [Top EXCEPT !.pc = "own"])
                 /\ UNCHANGED queues
            ELSE /\ stack' = SetTop(stack, [Top EXCEPT !.pc = "own",
                                                       !.effects = queues[q][k]])
                 /\ queues' = [queues EXCEPT ![q][k] = <<>>]
  /\ event' = "step"
  /\ UNCHANGED ext
  /\ UNCHANGED <<clock, scheduled, running, children, parent, microtasks, hist>>

\* runQueue has returned: line 48 for the pure slot, then the child loop
RunOwnDone ==
  /\ stack # <<>> /\ Top.fn = "run" /\ Top.pc = "own" /\ Top.i > Len(Arr(Top))
  /\ queues' = IF Top.type = EFFECT_PURE
                 THEN [queues EXCEPT ![Top.q][1] = <<>>] ELSE queues
  /\ stack' = SetTop(stack, [Top EXCEPT !.pc = "children", !.effects = <<>>, !.i = 1])
  /\ Dropped
  /\ event' = "step"
  /\ UNCHANGED ext
  /\ UNCHANGED <<clock, scheduled, running, children, parent, microtasks>>

\* the children taken last to first
ChildAtReversed(q, c) == children[q][Len(children[q]) + 1 - c]
\* this._children[i], scheduler.ts:56-57 (c counts from 1)
ChildAt(q, c) == children[q][c]

\* line 57: the call this._children[i].run(type)
RunChild ==
  /\ stack # <<>> /\ Top.fn = "run" /\ Top.pc = "children"
  /\ Top.c <= Len(children[Top.q])
  /\ stack' = Append(stack, RunFrame(ChildAt(Top.q, Top.c), Top.type))
  /\ event' = "step"
  /\ UNCHANGED ext
  /\ UNCHANGED <<clock, scheduled, running, queues, children, parent, microtasks, hist>>

\* line 59: the value run returns
RunResult(f) ==
  IF f.type = EFFECT_PURE THEN f.rerun \/ Len(queues[f.q][1]) > 0 ELSE FALSE

\* the caller's frame after run returned ret: line 57 in a parent's run,
\* lines 65-69 in flush
Resume(caller, type, ret) ==
  IF caller.fn = "run"
    THEN [caller EXCEPT !.rerun = ret \/ @, !.c = @ + 1]
    ELSE [caller EXCEPT !.pc = IF type = EFFECT_PURE
                                 THEN (IF ret THEN "pure" ELSE "inc")
                                 ELSE IF type = EFFECT_RENDER THEN "user" ELSE "exit"]

RunReturn ==
  /\ stack # <<>> /\ Top.fn = "run" /\ Top.pc = "children"
  /\ Top.c > Len(children[Top.q])
  /\ stack' = SetTop(Pop(stack), Resume(stack[Len(stack) - 1], Top.type, RunResult(Top)))
  /\ event' = "step"
  /\ UNCHANGED ext
  /\ UNCHANGED <<clock, scheduled, running, queues, children, parent, microtasks, hist>>

----------------------------------------------------------------------------
\* Queue.flush, scheduler.ts:61-73 (the guard of line 62 is at the call)

\* line 65: this.run(EFFECT_PURE)
FlushPure ==
  /\ stack # <<>> /\ Top.fn = "flush" /\ Top.pc = "pure"
  /\ stack' = Append(stack, RunFrame(Top.q, EFFECT_PURE))
  /\ fl' = [fl EXCEPT !.last = NoLast]
  /\ event' = "step"
  /\ UNCHANGED ext
  /\ UNCHANGED <<clock, scheduled, running, queues, children, parent, microtasks,
                 runs, lastRun, lastFlush, failedDone, reqs>>

\* lines 66-67: incrementClock(); scheduled = false
FlushInc ==
  /\ stack # <<>> /\ Top.fn = "flush" /\ Top.pc = "inc"
  /\ clock' = IncrementClock
  /\ scheduled' = FALSE
  /\ stack' = SetTop(stack, [Top EXCEPT !.pc = "render"])
  /\ event' = "step"
  /\ UNCHANGED ext
  /\ UNCHANGED <<running, queues, children, parent, microtasks, hist>>

\* lines 68 and 69
FlushEffects ==
  /\ stack # <<>> /\ Top.fn = "flush" /\ Top.pc \in {"render", "user"}
  /\ stack' = Append(stack, RunFrame(Top.q,
                 IF Top.pc = "render" THEN EFFECT_RENDER ELSE EFFECT_USER))
  /\ fl' = [fl EXCEPT !.last = NoLast]
  /\ event' = "step"
  /\ UNCHANGED ext
  /\ UNCHANGED <<clock, scheduled, running, queues, children, parent, microtasks,
                 runs, lastRun, lastFlush, failedDone, reqs>>

\* lines 70-72, normal exit
FlushExit ==
  /\ stack # <<>> /\ Top.fn = "flush" /\ Top.pc = "exit"
  /\ running' = [running EXCEPT ![Top.q] = FALSE]
  /\ stack' = Pop(stack)
  /\ lastFlush' = [how |-> "return", n |-> Top.n0,
                   delta |-> clock - Top.clock0, pure |-> fl.pure,
                   left |-> Cardinality(fl.owed), dropped |-> 0]
  /\ fl' = NoFl
  /\ lastRun' = NoRun
  /\ event' = "flushed"
  /\ UNCHANGED ext
  /\ UNCHANGED <<clock, scheduled, queues, children, parent, microtasks,
                 runs, failedDone, reqs>>

----------------------------------------------------------------------------
\* flushSync, scheduler.ts:94-100

InFlushSync == stack # <<>> /\ Top.fn = "flushSync"

\* line 96 false: flushSync returns
FlushSyncReturn ==
  /\ InFlushSync
  /\ ~scheduled
  /\ stack' = <<>>
  /\ event' = "fsReturn"
  /\ UNCHANGED ext
  /\ UNCHANGED <<clock, scheduled, running, queues, children, parent, microtasks, hist>>

\* line 97: the diagnostic
FlushSyncDiag ==
  /\ InFlushSync
  /\ scheduled
  /\ DEV /\ Top.count + 1 = LoopLimit
  /\ stack' = <<>>
  /\ event' = "fsDiag"
  /\ UNCHANGED ext
  /\ UNCHANGED <<clock, scheduled, running, queues, children, parent, microtasks, hist>>

\* line 98: globalQueue.flush()
FlushSyncCall ==
  /\ InFlushSync
  /\ scheduled
  /\ ~(DEV /\ Top.count + 1 = LoopLimit)
  /\ LET f == [Top EXCEPT !.count = IF DEV THEN @ + 1 ELSE @]
     IN IF FlushGuard(Root)
          THEN /\ stack' = SetTop(stack, f)
               /\ UNCHANGED <<running, hist>>
          ELSE /\ stack' = Append(SetTop(stack, f), FlushFrame(Root))
               /\ running' = [running EXCEPT ![Root] = TRUE]
               /\ Begin
  /\ event' = "step"
  /\ UNCHANGED ext
  /\ UNCHANGED <<clock, scheduled, queues, children, parent, microtasks>>

----------------------------------------------------------------------------
\* what happens between flushes, in synchronous user code and in the host

Idle == stack = <<>>

\* q.enqueue(type, node) called from user code
UserEnqueue(q, type) ==
  /\ Idle
  /\ q \in InTree
  /\ scheduled \/ microtasks < MaxMicro
  /\ Enqueue(q, type)
  /\ event' = "enqueue"
  /\ UNCHANGED ext
  /\ UNCHANGED <<clock, running, children, parent, stack,
                 runs, lastRun, fl, lastFlush, failedDone>>

\* flushSync() called from user code
UserFlushSync ==
  /\ Idle
  /\ clock < MaxClock
  /\ stack' = <<FlushSyncFrame>>
  /\ event' = "step"
  /\ UNCHANGED ext
  /\ UNCHANGED <<clock, scheduled, running, queues, children, parent, microtasks, hist>>

\* the host runs a queued microtask: flushSync (scheduler.ts:19)
Microtask ==
  /\ Idle
  /\ microtasks > 0
  /\ clock < MaxClock
  /\ microtasks' = microtasks - 1
  /\ stack' = <<FlushSyncFrame>>
  /\ event' = "step"
  /\ UNCHANGED ext
  /\ UNCHANGED <<clock, scheduled, running, queues, children, parent, hist>>

\* the queues not yet attached; they are interchangeable, `new Queue()` picks
\* the first
Fresh == {c \in Queues \ {Root} : parent[c] = NoQueue}
NewQueue == IF "qa" \in Fresh THEN "qa" ELSE "qb"

\* p.addChild(c) for a newly constructed queue c, scheduler.ts:74-77
AddChild(p, c) ==
  /\ Idle
  /\ p \in InTree
  /\ Fresh # {} /\ c = NewQueue
  /\ children' = [children EXCEPT ![p] = Append(@, c)]
  /\ parent' = [parent EXCEPT ![c] = p]
  /\ event' = "step"
  /\ UNCHANGED ext
  /\ UNCHANGED <<clock, scheduled, running, queues, microtasks, stack, hist>>

----------------------------------------------------------------------------
Step ==
  \/ TaskNop
  \/ \E q \in Queues, type \in Tiers : TaskEnqueue(q, type)
  \/ TaskThrow
  \/ TaskFlush
  \/ RunEnter
  \/ RunOwnDone
  \/ RunChild
  \/ RunReturn
  \/ FlushPure
  \/ FlushInc
  \/ FlushEffects
  \/ FlushExit
  \/ FlushSyncReturn
  \/ FlushSyncDiag
  \/ FlushSyncCall

Next ==
  \/ Step
  \/ \E q \in Queues, type \in Tiers : UserEnqueue(q, type)
  \/ UserFlushSync
  \/ Microtask
  \/ \E p \in Queues, c \in Queues \ {Root} : AddChild(p, c)

Spec == Init /\ [][Next]_vars

\* the thread keeps executing the call in progress, and the host runs the
\* microtasks it was given
LiveSpec == Spec /\ WF_vars(Step) /\ WF_vars(Microtask)

TypeOK ==
  /\ clock \in Nat
  /\ scheduled \in BOOLEAN
  /\ microtasks \in 0..MaxMicro

----------------------------------------------------------------------------
\* the flush call in progress, if any
Flushing == \E n \in 1..Len(stack) : stack[n].fn = "flush"
NumFlushes == Cardinality({n \in 1..Len(stack) : stack[n].fn = "flush"})

\* C1: within one flush, no closure that was enqueued with tier render or
\* user is executed before the pure phase has reached its fixed point, that
\* is while flush is still in the loop of run(EFFECT_PURE) and has not yet
\* incremented the clock.
C1_EffectsAfterPure ==
  (Flushing /\ lastRun.id # 0 /\ lastRun.tier # EFFECT_PURE)
     => /\ FlushOf(stack).pc \notin {"pure", "inc"}
        /\ clock = FlushOf(stack).clock0 + 1

\* C2: within the same flush every execution of a task enqueued with tier
\* render comes before every execution of a task enqueued with tier user:
\* no render task runs once a user task has run in this flush.
C2_RenderBeforeUser ==
  ~(lastRun.id # 0 /\ lastRun.tier = EFFECT_RENDER /\ fl.user)

\* C3: each call of enqueue causes its task to be executed exactly once; the
\* extra append to slot 0 for a render or user task does not lead to a
\* second execution: no task is executed more than once per enqueue call
\* (stated for the tasks no failed flush has left behind; C10 is about those).
C3_ExactlyOnce == failedDone = {} => \A i \in Ids : runs[i] <= 1

\* some slot of a queue of the tree holds a task
Work == \E q \in InTree, k \in 1..3 : queues[q][k] # <<>>

\* C4: after flushSync returns normally the system is quiescent: scheduled
\* is false and the pure, render and user slots of the global queue and of
\* every descendant queue are empty.
C4_Quiescent == event = "fsReturn" => ~scheduled /\ ~Work

\* C5 as stated: every flush that performed pure work increases the clock by
\* exactly one.
C5_EveryFlushWithPureWork ==
  (lastFlush.how # "none" /\ lastFlush.pure) => lastFlush.delta = 1

\* C5 amended: the clock never decreases; a flush call that is not suppressed
\* and returns normally has increased it by exactly one, and the increment lies
\* between the pure fixed point and the first render drain; a flush that an
\* exception ends in its pure phase leaves the clock as it was; a suppressed
\* flush call leaves the clock unchanged.
C5_Clock ==
  /\ [](/\ lastFlush.how = "return" => lastFlush.delta = 1
        /\ lastFlush.how = "throw" =>
             lastFlush.delta = (IF lastRun.slot = EFFECT_PURE THEN 0 ELSE 1)
        /\ Flushing =>
             clock = FlushOf(stack).clock0
                       + (IF FlushOf(stack).pc \in {"pure", "inc"} THEN 0 ELSE 1))
  /\ [][clock' >= clock /\ (event' = "suppressed" => clock' = clock)]_vars

\* a flush that ran pure tasks has returned normally
C5_Witness == lastFlush.how = "return" /\ lastFlush.pure /\ lastFlush.delta = 1

\* C6: flush is guarded against re-entry: at most one flush call is active,
\* a flush call made from inside a task returns at once, and _running of the
\* global queue is true exactly while a flush call is active, false again
\* after a normal exit and after an exit by an exception.
C6_Guard ==
  /\ NumFlushes <= 1
  /\ running[Root] <=> Flushing
  /\ event \in {"throw", "flushed", "fsReturn", "fsDiag"} => ~running[Root]

\* a task has called flush while the flush that runs it is in progress
C6_Witness == event = "suppressed" /\ running[Root] /\ NumFlushes = 1

\* C7: flushSync does not hang: every call of flushSync ends, by returning, by
\* an exception of a task or by the infinite-loop diagnostic, also when the
\* tasks enqueue new work every time they run.
C7_FlushSyncEnds == (stack # <<>>) ~> (stack = <<>>)

C9_FlushRequested == (Idle /\ Work) => microtasks > 0

\* C10: an unhandled error neither loses nor duplicates work: the exception
\* drops no task that was waiting for its turn, and no task that had
\* completed in the failed flush is executed again.
C10_NoLossNoDup ==
  /\ lastFlush.dropped = 0
  /\ lastRun.id # 0 => lastRun.id \notin failedDone

----------------------------------------------------------------------------
\* createEffect and createRenderEffect (src/unnamed/part_001:209-326) on the
\* scheduler.  One effect is created in the scope of an owner whose queue is
\* the global queue.  fx holds the variables its closures share:
\*   kind     "user" (createEffect) or "render" (createRenderEffect)
\*   handler  whether the `error` argument was given
\*   current, prev   the two value variables (lines 230-231, 299-300)
\*   cleanup  the function held by `cleanup`: "none" (undefined); "fresh",
\*            returned by the effect function and not called yet; "called",
\*            the same after its call; "hfresh" and "hcalled", likewise for
\*            a function that the error handler returned
\*   dirty    the node is registered on the queue for a compute run
\*   seen     history: what the latest body did
\* The bodies of compute, effect and the error handler are inputs: the compute
\* returns a value, raises NotReady or throws; the effect and the handler
\* return a cleanup function, return nothing or throw.

MaxVal == 2        \* values a compute returns: 1..MaxVal
MaxFlushes == 3    \* flushSync is not entered once the clock is this high
MaxSlot == 3       \* flushSync is not entered with a longer pure slot

\* the two closures as queue entries: ids past those of the plain tasks
NodeId == MaxEnq + 1
ClosureId == MaxEnq + 2
Outcomes == {"ok", "notready", "error"}
Returns == {"fn", "nothing", "throws"}

\* getOwner()?._queue, part_001:228 and 297
EffectQueue == Root

\* a notify that reports the notification as handled
NotifyHandled(q) == TRUE
RECURSIVE Notify(_)
\* Queue.notify, scheduler.ts:82-85: the value it returns
Notify(q) == IF parent[q] # NoQueue THEN Notify(parent[q]) ELSE FALSE

\* LOADING_BIT | ERROR_BIT, the mask of part_001:306-311
LoadingOrError == {"LOADING", "ERROR"}
\* queue.notify(node, ERROR_BIT, ERROR_BIT), part_001:246, 255 and 319
ErrorNote == [mask |-> {"ERROR"}, flags |-> {"ERROR"}]

\* a compute that reports 0 whatever happened
FlagsNone(out) == {}
\* the flags that the compute of createRenderEffect reports,
\* part_001:306, 309 and 311
Flags(out) == IF out = "ok" THEN {}
              ELSE IF out = "notready" THEN {"LOADING"}
              ELSE {"ERROR"}

\* the queue receives the notifications `sent` of one call of a body:
\* fx.sent are those of the latest call, fx.told the latest notification
\* and fx.toldBoth the latest one with the mask LOADING_BIT | ERROR_BIT
Received(f, sent) ==
  LET both == SelectSeq(sent, LAMBDA n : n.mask = LoadingOrError)
  IN [f EXCEPT !.sent = sent,
               !.told = IF sent = <<>> THEN @ ELSE sent[Len(sent)],
               !.toldBoth = IF both = <<>> THEN @ ELSE both[Len(both)]]

\* a catch clause that swallows the error
RethrowsNever(q) == FALSE
\* `if (!queue?.notify(node, ERROR_BIT, ERROR_BIT)) throw e`, part_001:246,
\* 255 and 319
Rethrows(q) == ~Notify(q)

\* `cleanup?.()`: the state of the function after the call
CallCleanup(c) ==
  IF c = "fresh" THEN "called" ELSE IF c = "hfresh" THEN "hcalled" ELSE c

\* the exception leaves runQueue, run, flush (finally) and flushSync
Raise ==
  /\ running' = Unwind(stack)
  /\ stack' = <<>>
  /\ event' = "throw"
  /\ UNCHANGED <<clock, scheduled, queues, children, parent, microtasks, hist>>

\* queue.enqueue(type, e) called from a body that then returns to runQueue
EnqueueFrom(type, e) ==
  /\ queues' = Push(queues, EffectQueue, type, e)
  /\ scheduled' = Schedule[1]
  /\ microtasks' = Schedule[2]
  /\ reqs' = reqs + (Schedule[2] - microtasks)
  /\ UNCHANGED <<clock, running, children, parent,
                 runs, lastRun, fl, lastFlush, failedDone>>

\* the closure of part_001:250-259 and 314-323, as a queue entry; `by` is
\* history: the outcome of the compute run that enqueued it
Closure(type, out) == [id |-> ClosureId, tier |-> type, by |-> out]

\* the function given to computed() by createEffect, part_001:234-261
RunCompute(out, v, h) ==
  /\ InOwn /\ Cur.id = NodeId
  /\ UNCHANGED <<ao, ev, gr, nt, pl>>
  /\ fx.kind = "user"
  /\ out = "ok" \/ v = 1
  /\ (out = "error" /\ fx.handler) \/ h = "nothing"
  /\ LET err == out = "error"
         c1 == IF err THEN CallCleanup(fx.cleanup) ELSE fx.cleanup
         handled == err /\ fx.handler
         hthrows == handled /\ h = "throws"
         c2 == IF ~err THEN fx.cleanup
               ELSE IF ~fx.handler \/ h = "nothing" THEN "none"
               ELSE IF h = "fn" THEN "hfresh" ELSE c1
         raise == hthrows /\ Rethrows(EffectQueue)
     IN /\ fx' = Received(
                   [fx EXCEPT !.current = IF out = "ok" THEN v ELSE @,
                              !.cleanup = c2,
                              !.dirty = FALSE,
                              !.lastc = out,
                              !.seen = [src |-> "compute", out |-> out, by |-> "ok",
                                        handled |-> handled, notified |-> hthrows,
                                        raised |-> raise,
                                        twice |-> err /\ fx.cleanup = "called"]],
                   IF hthrows THEN <<ErrorNote>> ELSE <<>>)
        /\ IF raise
             THEN Raise
             ELSE /\ EnqueueFrom(EFFECT_USER, Closure(EFFECT_USER, out))
                  /\ stack' = Advance
                  /\ event' = "step"

\* the function given to computed() by createRenderEffect, part_001:303-325
RunRenderCompute(out, v) ==
  /\ InOwn /\ Cur.id = NodeId
  /\ UNCHANGED <<ao, ev, gr, nt, pl>>
  /\ fx.kind = "render"
  /\ out = "ok" \/ v = 1
  /\ fx' = Received(
             [fx EXCEPT !.current = IF out = "ok" THEN v ELSE @,
                        !.dirty = FALSE,
                        !.lastc = out,
                        !.seen = [src |-> "compute", out |-> out, by |-> "ok",
                                  handled |-> FALSE, notified |-> TRUE,
                                  raised |-> FALSE, twice |-> FALSE]],
             <<[mask |-> LoadingOrError, flags |-> Flags(out)]>>)
  /\ EnqueueFrom(EFFECT_RENDER, Closure(EFFECT_RENDER, out))
  /\ stack' = Advance
  /\ event' = "step"

\* the enqueued closure, part_001:250-259 and 314-323
RunEffect(res) ==
  /\ InOwn /\ Cur.id = ClosureId
  /\ UNCHANGED <<ao, ev, gr, nt, pl>>
  /\ LET c1 == CallCleanup(fx.cleanup)
         throws == res = "throws"
         raise == throws /\ Rethrows(EffectQueue)
     IN /\ fx' = Received(
                   [fx EXCEPT !.cleanup = IF res = "fn" THEN "fresh"
                                          ELSE IF res = "nothing" THEN "none" ELSE c1,
                              !.prev = fx.current,
                              !.seen = [src |-> "effect",
                                        out |-> IF throws THEN "error" ELSE "ok",
                                        by |-> Cur.by,
                                        handled |-> FALSE, notified |-> throws,
                                        raised |-> raise,
                                        twice |-> fx.cleanup = "called"]],
                   IF throws THEN <<ErrorNote>> ELSE <<>>)
        /\ IF raise
             THEN Raise
             ELSE /\ stack' = Advance
                  /\ event' = "step"
                  /\ UNCHANGED <<clock, scheduled, running, queues, children,
                                 parent, microtasks, hist>>

\* the node of computed() is registered on the queue for a compute run in
\* the pure phase
Register ==
  /\ queues' = Push(queues, EffectQueue, EFFECT_PURE,
                    [id |-> NodeId, tier |-> EFFECT_PURE])
  /\ scheduled' = Schedule[1]
  /\ microtasks' = Schedule[2]
  /\ reqs' = reqs + (Schedule[2] - microtasks)

\* createEffect(compute, effect, error?) or createRenderEffect(compute, effect)
CreateEffect(kind, handler) ==
  /\ Idle
  /\ fx.kind = "none"
  /\ kind = "user" \/ ~handler
  /\ fx' = [NoFx EXCEPT !.kind = kind, !.handler = handler, !.dirty = TRUE]
  /\ UNCHANGED <<ao, ev, gr, nt, pl>>
  /\ Register
  /\ event' = "step"
  /\ UNCHANGED <<clock, running, children, parent, stack,
                 runs, lastRun, fl, lastFlush, failedDone>>

\* a signal that the compute function reads is written
WriteSource ==
  /\ Idle
  /\ fx.kind # "none"
  /\ ~fx.dirty
  /\ ~fx.disposed
  /\ Len(queues[EffectQueue][1]) < MaxSlot
  /\ scheduled \/ microtasks < MaxMicro
  /\ fx' = [fx EXCEPT !.dirty = TRUE]
  /\ UNCHANGED <<ao, ev, gr, nt, pl>>
  /\ Register
  /\ event' = "step"
  /\ UNCHANGED <<clock, running, children, parent, stack,
                 runs, lastRun, fl, lastFlush, failedDone>>

\* flushSync() called from user code
EffectFlushSync ==
  /\ Idle
  /\ fx.kind # "none"
  /\ clock < MaxFlushes
  /\ Len(queues[EffectQueue][1]) <= MaxSlot
  /\ stack' = <<FlushSyncFrame>>
  /\ event' = "step"
  /\ UNCHANGED <<clock, scheduled, running, queues, children, parent,
                 microtasks, hist, ext>>

\* the host runs the flushSync microtask
EffectMicrotask ==
  /\ Idle
  /\ microtasks > 0
  /\ clock < MaxFlushes
  /\ Len(queues[EffectQueue][1]) <= MaxSlot
  /\ microtasks' = microtasks - 1
  /\ stack' = <<FlushSyncFrame>>
  /\ event' = "step"
  /\ UNCHANGED <<clock, scheduled, running, queues, children, parent, hist, ext>>

EffectNext ==
  \/ \E kind \in {"user", "render"}, handler \in BOOLEAN : CreateEffect(kind, handler)
  \/ WriteSource
  \/ EffectFlushSync
  \/ EffectMicrotask
  \/ \E out \in Outcomes, v \in 1..MaxVal, h \in Returns : RunCompute(out, v, h)
  \/ \E out \in Outcomes, v \in 1..MaxVal : RunRenderCompute(out, v)
  \/ \E res \in Returns : RunEffect(res)
  \/ RunEnter
  \/ RunOwnDone
  \/ RunReturn
  \/ FlushPure
  \/ FlushInc
  \/ FlushEffects
  \/ FlushExit
  \/ FlushSyncReturn
  \/ FlushSyncCall

EffectSpec == Init /\ [][EffectNext]_vars

----------------------------------------------------------------------------
\* C11: the effect function is run only for a compute run that succeeded: no
\* call of the effect function comes from a closure that a compute run
\* ending in NotReady or in an error has enqueued.
C11_EffectAfterSuccess == fx.seen.src = "effect" => fx.seen.by = "ok"

\* C12: a cleanup function returned by a run of the effect is called exactly
\* once: `cleanup?.()` never calls a function that was called before, also
\* when a later run of the effect function throws.
C12_CleanupOnce == ~fx.seen.twice

\* C13 as stated: an error thrown by the effect body goes to the error
\* handler when one was given, and otherwise to the queue's notify, re-raising
\* when notify returns false.
C13_HandlerOrNotify ==
  (fx.seen.src = "effect" /\ fx.seen.out = "error")
     => IF fx.handler THEN fx.seen.handled
        ELSE fx.seen.notified /\ fx.seen.raised

\* C13 amended: an error thrown by the effect body is not passed to the error
\* handler; with or without a handler the queue's notify is called with the
\* ERROR bit, a plain queue returns false, and the error re-raises out of
\* the flush: no call stays active and the queue is not running.
C13_NotifyThenRaise ==
  /\ (fx.seen.src = "effect" /\ fx.seen.out = "error")
        => ~fx.seen.handled /\ fx.seen.notified /\ fx.seen.raised
  /\ (event = "throw" /\ fx.seen.raised) => stack = <<>> /\ ~running[EffectQueue]

\* an effect with an error handler has thrown out of the flush
C13_Witness ==
  /\ fx.handler /\ fx.seen.src = "effect" /\ fx.seen.out = "error"
  /\ fx.seen.raised /\ event = "throw"

\* C14: an error other than NotReady thrown by the compute function of
\* createEffect is never dropped: the error handler is invoked when one was
\* given, and otherwise notify is called and the error re-raises.
C14_ComputeErrorNotDropped ==
  (fx.kind = "user" /\ fx.seen.src = "compute" /\ fx.seen.out = "error")
     => IF fx.handler THEN fx.seen.handled
        ELSE fx.seen.notified /\ fx.seen.raised



\* C33 as stated: the latest notification that the queue received from a
\* render effect has the mask LOADING|ERROR and the flags of the outcome of
\* the latest compute run.
C33_LastNotification ==
  (fx.kind = "render" /\ fx.lastc # "none") =>
    /\ fx.told.mask = LoadingOrError
    /\ fx.lastc = "ok" => fx.told.flags = {}
    /\ fx.lastc = "notready" => fx.told.flags = {"LOADING"}
    /\ fx.lastc = "error" => fx.told.flags = {"ERROR"}

\* C33: every compute run of a render effect sends exactly one notification:
\* mask LOADING|ERROR, flags 0 after a normal return, LOADING after NotReady,
\* ERROR after another error; the latest notification with that mask
\* reflects the latest compute run; a run of the effect function sends one
\* notification with mask ERROR and flags ERROR when it throws and none
\* otherwise.
C33_ComputeNotifies ==
  fx.kind = "render" =>
    /\ fx.seen.src = "compute" =>
         /\ Len(fx.sent) = 1 /\ fx.sent[1] = fx.told
         /\ fx.seen.out = fx.lastc
    /\ fx.lastc # "none" =>
         /\ fx.toldBoth.mask = {"LOADING", "ERROR"}
         /\ fx.lastc = "ok" => fx.toldBoth.flags = {}
         /\ fx.lastc = "notready" => fx.toldBoth.flags = {"LOADING"}
         /\ fx.lastc = "error" => fx.toldBoth.flags = {"ERROR"}
    /\ fx.seen.src = "compute" => fx.told = fx.toldBoth
    /\ fx.seen.src = "effect" =>
         fx.sent = IF fx.seen.out = "error"
                   THEN <<[mask |-> {"ERROR"}, flags |-> {"ERROR"}]>>
                   ELSE <<>>

\* the compute of a render effect returned normally and reported 0, then
\* its effect function threw and reported ERROR
C33_Witness ==
  /\ fx.kind = "render" /\ fx.lastc = "ok"
  /\ fx.seen.src = "effect" /\ fx.seen.out = "error"
  /\ fx.toldBoth = [mask |-> LoadingOrError, flags |-> {}]
  /\ fx.told = ErrorNote

----------------------------------------------------------------------------
\* Asynchronous operations: unwrapPromise and unwrapAsyncIterator
\* (src/unnamed/part_000:19-84) and createAsync (src/unnamed/part_001:147-189).
\* ao[o] is one promise or async iterable received in the scope of an owner:
\*   kind      which function received it
\*   st        "idle", "pending" (not settled / next value not yielded),
\*             "settled" (the continuation waits in the microtask queue),
\*             "done"
\*   how       what the settlement carries: "value" or "error"
\*   left      values the iterable has still to yield
\*   aborted   the local flag `aborted` / `abort`
\*   registered  the closure setting the flag was given to onCleanup
\*   disposed  the owner scope was disposed
\*   nexts, errors, writes, waits   calls of observer.next, observer.error,
\*             setSignal and observer.wait made for this operation
\*   after     history: deliveries made after the disposal
AsyncKinds == {"unwrapPromise", "unwrapAsyncIterator", "asyncPromise", "asyncIterator"}
IsIterator(k) == k \in {"unwrapAsyncIterator", "asyncIterator"}
IsCreateAsync(k) == k \in {"asyncPromise", "asyncIterator"}

\* a continuation that does not look at the flag
AbortedNever(o) == FALSE
\* `if (aborted) return`, part_000:35, 38, 70, 74; `if (abort) return`,
\* part_001:165, 169, 177, 181
Aborted(o) == ao[o].aborted

\* observer.next(e) with a promise or an async iterable e (part_000:26-41,
\* 58-78), or a run of the compute of createAsync that returns one
\* (part_001:154-186)
Receive(o, kind, n) ==
  /\ ao[o].st = "idle"
  /\ \A p \in Ops : p < o => ao[p].st # "idle"
  /\ IF IsIterator(kind) THEN n \in 1..MaxYield ELSE n = 1
  /\ ao' = [ao EXCEPT ![o] = [NoOp EXCEPT !.kind = kind, !.st = "pending",
                                          !.left = n, !.registered = TRUE,
                                          !.waits = IF IsCreateAsync(kind) THEN 0 ELSE 1]]
  /\ UNCHANGED <<clock, scheduled, running, queues, children, parent,
                 microtasks, stack, hist, event, fx, ev, gr, nt, pl>>

\* the promise is fulfilled or rejected; the iterable yields or throws
Settle(o, how) ==
  /\ ao[o].st = "pending"
  /\ ao' = [ao EXCEPT ![o].st = "settled", ![o].how = how]
  /\ UNCHANGED <<clock, scheduled, running, queues, children, parent,
                 microtasks, stack, hist, event, fx, ev, gr, nt, pl>>

\* the continuation runs: the callbacks given to then / catch
\* (part_000:34-40, part_001:164-171), or the body and the catch of the
\* `for await` loop (part_000:69-76, part_001:176-183).  `throws`: the
\* downstream observer.next throws.  In unwrapPromise the exception rejects
\* the promise that then() returned, and the function given to catch() runs
\* later; in unwrapAsyncIterator the catch clause around the loop runs at
\* once
Continue(o, throws) ==
  /\ ao[o].st = "settled"
  /\ throws => ~IsCreateAsync(ao[o].kind) /\ ao[o].how = "value" /\ ~Aborted(o)
  /\ LET a == ao[o]
         late == IF a.disposed THEN 1 ELSE 0
         more == IsIterator(a.kind) /\ a.how = "value" /\ a.left > 1
     IN ao' = [ao EXCEPT ![o] =
          IF Aborted(o) THEN [a EXCEPT !.st = "done"]
          ELSE IF IsCreateAsync(a.kind)
            THEN [a EXCEPT !.writes = @ + 1, !.after = @ + late,
                           !.left = IF a.how = "value" THEN @ - 1 ELSE @,
                           !.st = IF more THEN "pending" ELSE "done"]
          ELSE IF a.how = "value" /\ throws
            THEN [a EXCEPT !.nexts = @ + 1, !.after = @ + late,
                           !.errors = IF IsIterator(a.kind) THEN @ + 1 ELSE @,
                           !.st = IF IsIterator(a.kind) THEN "done" ELSE "thrown"]
          ELSE IF a.how = "value"
            THEN [a EXCEPT !.nexts = @ + 1, !.after = @ + late,
                           !.left = @ - 1,
                           !.st = IF more THEN "pending" ELSE "done"]
            ELSE [a EXCEPT !.errors = @ + 1, !.after = @ + late, !.st = "done"]]
  /\ UNCHANGED <<clock, scheduled, running, queues, children, parent,
                 microtasks, stack, hist, event, fx, ev, gr, nt, pl>>

\* the function given to catch() runs for an exception of the function given
\* to then(), part_000:37-40
Catch(o) ==
  /\ ao[o].st = "thrown"
  /\ ao' = [ao EXCEPT ![o] =
              IF Aborted(o) THEN [@ EXCEPT !.st = "done"]
              ELSE [@ EXCEPT !.errors = @ + 1, !.st = "done",
                             !.after = @ + (IF ao[o].disposed THEN 1 ELSE 0)]]
  /\ UNCHANGED <<clock, scheduled, running, queues, children, parent,
                 microtasks, stack, hist, event, fx, ev, gr, nt, pl>>

\* the owner scope of the operation is disposed: its cleanups run
DisposeOwner(o) ==
  /\ ao[o].st # "idle"
  /\ ~ao[o].disposed
  /\ ao' = [ao EXCEPT ![o].disposed = TRUE,
                      ![o].aborted = IF ao[o].registered THEN TRUE ELSE @]
  /\ UNCHANGED <<clock, scheduled, running, queues, children, parent,
                 microtasks, stack, hist, event, fx, ev, gr, nt, pl>>

AsyncNext ==
  \/ \E o \in Ops, kind \in AsyncKinds, n \in 1..MaxYield : Receive(o, kind, n)
  \/ \E o \in Ops, how \in {"value", "error"} : Settle(o, how)
  \/ \E o \in Ops, throws \in BOOLEAN : Continue(o, throws)
  \/ \E o \in Ops : Catch(o)
  \/ \E o \in Ops : DisposeOwner(o)

AsyncSpec == Init /\ [][AsyncNext]_vars

\* C15: disposal aborts in-flight async work: once the owner scope of an
\* operation is disposed, a settlement of its promise (or a value or an
\* error of its iterable) delivers no next and no error downstream and
\* writes no signal; the flag is set exactly by the disposal.
C15_DisposalAborts ==
  \A o \in Ops : /\ ao[o].after = 0
                 /\ ao[o].aborted <=> ao[o].disposed

\* an operation was disposed while pending, its promise then settled, and the
\* continuation has run
C15_Witness ==
  \E o \in Ops : /\ ao[o].disposed /\ ao[o].st = "done"
                 /\ ao[o].nexts = 0 /\ ao[o].errors = 0 /\ ao[o].writes = 0



\* C29: for a promise passed to the next of unwrapPromise, the downstream
\* observer gets wait at once and, unless the operation is aborted, one
\* next or one error when the promise has settled, never both.
C29_OneOutcome ==
  \A o \in Ops :
    ao[o].kind = "unwrapPromise" =>
      /\ ao[o].waits = 1
      /\ ao[o].nexts + ao[o].errors <= 1
      /\ (ao[o].st = "done" /\ ~ao[o].aborted) => ao[o].nexts + ao[o].errors = 1

----------------------------------------------------------------------------
\* The event layer: Subject (src/src/events/core.ts:31-73), makeEmitter
\* (src/src/events/handler.ts:45-51), createEvent
\* (src/src/events/primitives.ts:38-55) and throughQueue
\* (src/unnamed/part_000:86-103).  ev holds
\*   hObs, eObs   the observers of the two Subjects that createEvent() makes:
\*                the one given to makeHandler and the one given to makeEmitter
\*   mObs, mDispose   the observers and the `dispose` field (set or not) of the
\*                Subject $ that createEvent(source) makes
\*   sObs         the observers that the source's Subject holds for $, in the
\*                order of their subscription; each is wrapped by throughQueue
\*   n, via, due, got   history: the values emitted so far, how each was
\*                emitted, who was subscribed then, and how often each
\*                observer's next was called with it

\* the closure that throughQueue enqueues (part_000:94-97), as a queue entry
DeliverId == MaxEnq + 3
Delivery(o, k) == [id |-> DeliverId, tier |-> EFFECT_PURE, obs |-> o, val |-> k]

\* history: value k was emitted through `how` while `subs` were subscribed
Emitted(e, how, subs) ==
  [e EXCEPT !.n = @ + 1, !.via[e.n + 1] = how, !.due[e.n + 1] = subs]

\* observer.next(k) of every observer in `subs`
Deliver(e, subs, k) ==
  [e EXCEPT !.got = [o \in Obs |-> IF o \in subs
                                     THEN [@[o] EXCEPT ![k] = @ + 1] ELSE @[o]]]

\* the Subject that makeEmitter wraps in createEvent(), primitives.ts:40
EmitterSubject == "eObs"

\* getSource(handler).subscribe(o) for [handler, emitter] = createEvent():
\* Subject's subscribe function, core.ts:39-56, without sources
SubscribeHandler(o) ==
  /\ Idle
  /\ o \notin ev.hObs
  /\ ev' = [ev EXCEPT !.hObs = @ \cup {o}]
  /\ UNCHANGED <<clock, scheduled, running, queues, children, parent,
                 microtasks, stack, hist, event, fx, ao, gr, nt, pl>>

\* emitter(e) for [handler, emitter] = createEvent(): handler.ts:46-48 and
\* Subject.next, core.ts:59-62
Emit ==
  /\ Idle
  /\ ev.n < MaxEmit
  /\ ev' = Deliver(Emitted(ev, "emitter", ev.hObs), ev[EmitterSubject], ev.n + 1)
  /\ UNCHANGED <<clock, scheduled, running, queues, children, parent,
                 microtasks, stack, hist, event, fx, ao, gr, nt, pl>>

\* the observers that the constructor's subscribe function hands to the
\* sources, core.ts:44: the subscribing observer itself
SourceObserver(o) == <<o>>

\* $.subscribe(o) for [handler] = createEvent(source): core.ts:39-56
SubscribeMerged(o) ==
  /\ Idle
  /\ o \notin ev.mObs
  /\ ev' = [ev EXCEPT !.mObs = @ \cup {o},
                      !.sObs = IF ~ev.mDispose THEN @ \o SourceObserver(o) ELSE @,
                      !.mDispose = TRUE]
  /\ UNCHANGED <<clock, scheduled, running, queues, children, parent,
                 microtasks, stack, hist, event, fx, ao, gr, nt, pl>>

\* the scope in which o subscribed is disposed: the cleanup of core.ts:49-55
\* runs; disposing the root of line 43 drops what was subscribed in it
UnsubscribeMerged(o) ==
  /\ Idle
  /\ o \in ev.mObs
  /\ LET last == ev.mDispose /\ ev.mObs = {o}
     IN ev' = [ev EXCEPT !.mObs = @ \ {o},
                         !.sObs = IF last THEN <<>> ELSE @,
                         !.mDispose = IF last THEN FALSE ELSE @]
  /\ UNCHANGED <<clock, scheduled, running, queues, children, parent,
                 microtasks, stack, hist, event, fx, ao, gr, nt, pl>>

RECURSIVE PushAll(_, _, _)
\* Subject.next of the source (core.ts:59-62): every observer it holds is one
\* wrapped by throughQueue, whose next enqueues a closure with EFFECT_PURE
\* (primitives.ts:48-50)
PushAll(qs, os, k) ==
  IF os = <<>> THEN qs
  ELSE PushAll(Push(qs, Root, EFFECT_PURE, Delivery(Head(os), k)), Tail(os), k)

\* the source emits a value
EmitSource ==
  /\ Idle
  /\ ev.n < MaxEmit
  /\ scheduled \/ microtasks < MaxMicro
  /\ ev' = Emitted(ev, "source", ev.mObs)
  /\ queues' = PushAll(queues, ev.sObs, ev.n + 1)
  /\ scheduled' = IF ev.sObs = <<>> THEN scheduled ELSE Schedule[1]
  /\ microtasks' = IF ev.sObs = <<>> THEN microtasks ELSE Schedule[2]
  /\ reqs' = IF ev.sObs = <<>> THEN reqs ELSE reqs + (Schedule[2] - microtasks)
  /\ UNCHANGED <<clock, running, children, parent, stack, runs, lastRun, fl,
                 lastFlush, failedDone, event, fx, ao, gr, nt, pl>>

\* the emitter of createEvent(source) is called: makeEmitter($), Subject.next
EmitMerged ==
  /\ Idle
  /\ ev.n < MaxEmit
  /\ ev' = Deliver(Emitted(ev, "merged", ev.mObs), ev.mObs, ev.n + 1)
  /\ UNCHANGED <<clock, scheduled, running, queues, children, parent,
                 microtasks, stack, hist, event, fx, ao, gr, nt, pl>>

\* runQueue calls the closure of throughQueue: observer.next(e)
RunDelivery ==
  /\ InOwn /\ Cur.id = DeliverId
  /\ ev' = [Deliver(ev, {Cur.obs}, Cur.val)
              EXCEPT !.late = @ \cup ({Cur.obs} \ ev.mObs)]
  /\ stack' = Advance
  /\ event' = "step"
  /\ UNCHANGED <<clock, scheduled, running, queues, children, parent,
                 microtasks, hist, fx, ao, gr, nt, pl>>

\* flushSync() called from user code
EventFlushSync ==
  /\ Idle
  /\ clock < MaxFlushes
  /\ stack' = <<FlushSyncFrame>>
  /\ event' = "step"
  /\ UNCHANGED <<clock, scheduled, running, queues, children, parent,
                 microtasks, hist, ext>>

\* the host runs the flushSync microtask
EventMicrotask ==
  /\ Idle
  /\ microtasks > 0
  /\ clock < MaxFlushes
  /\ microtasks' = microtasks - 1
  /\ stack' = <<FlushSyncFrame>>
  /\ event' = "step"
  /\ UNCHANGED <<clock, scheduled, running, queues, children, parent, hist, ext>>

EventNext ==
  \/ \E o \in Obs : SubscribeHandler(o)
  \/ Emit
  \/ \E o \in Obs : SubscribeMerged(o)
  \/ \E o \in Obs : UnsubscribeMerged(o)
  \/ EmitSource
  \/ EmitMerged
  \/ RunDelivery
  \/ EventFlushSync
  \/ EventMicrotask
  \/ RunEnter
  \/ RunOwnDone
  \/ RunReturn
  \/ FlushPure
  \/ FlushInc
  \/ FlushEffects
  \/ FlushExit
  \/ FlushSyncReturn
  \/ FlushSyncCall

EventSpec == Init /\ [][EventNext]_vars

\* C16: for [handler, emitter] = createEvent(), every value passed to emitter
\* is delivered (once) to every observer subscribed through handler at that
\* time.
C16_SameEvent ==
  \A k \in Emits : ev.via[k] = "emitter" =>
     \A o \in ev.due[k] : ev.got[o][k] = 1

\* no closure of throughQueue waits in the queue or in a run call
Delivered == Idle /\ queues[Root][1] = <<>>

\* C17: createEvent(source) multicasts: each value the source emits is
\* delivered exactly once to every observer subscribed to the resulting
\* Subject, for any number of subscribers, and the source is subscribed at
\* most once while the Subject has observers.
C17_Multicast ==
  /\ Len(ev.sObs) <= 1
  /\ \A k \in Emits, o \in Obs : ev.got[o][k] <= 1
  /\ Delivered =>
       \A k \in Emits : ev.via[k] = "source" =>
          \A o \in ev.due[k] \cap ev.mObs : ev.got[o][k] = 1




\* C25: an observer whose subscription to the Subject has been cleaned up
\* receives nothing more through it: no next is delivered to an observer
\* that is not subscribed at that moment.
C25_NoLateDelivery == ev.late = {}

----------------------------------------------------------------------------
\* createSignal and createMemo: signals A and B, the memo M = f(A, B) and a
\* computation W that reads M and is run by the queue in the pure phase.
\* The cells themselves (signal, computed, read, setSignal) are those of
\* section 4.2 of the specification.

Signals == {"A", "B"}
\* the task of the queue that brings W up to date
WatchId == MaxEnq + 4

\* the function f given to createMemo, part_001:128
Compute(a, b) == a + b

\* update of the memo's cell: a tracked run of () => (prev = compute(prev)),
\* which reads A and B and so records both as sources
Update(g) ==
  [g EXCEPT !.m = Compute(g.a, g.b), !.ms = "CLEAN", !.mlinked = TRUE]

\* read of the memo's cell: update first when the cell is not CLEAN
Read(g) == IF g.ms # "CLEAN" THEN Update(g) ELSE g

\* an accessor that returns the value computed last without reading the cell
MemoAccessorCached(g) == g
\* the accessor createMemo returns, () => read(node), part_001:129
MemoAccessor(g) == Read(g)

\* write of v to the cell of signal s: store, mark the observers (the memo
\* DIRTY, what reads the memo CHECK)
Write(g, s, v) ==
  [g EXCEPT !.a = IF s = "A" THEN v ELSE @,
            !.b = IF s = "B" THEN v ELSE @,
            !.ms = IF g.mlinked THEN "DIRTY" ELSE @,
            !.ws = IF g.wlinked /\ @ = "CLEAN" THEN "CHECK" ELSE @,
            !.wrote = @ \cup {s}]

\* what the latest read of M returned, and the values A and B had then
Sight(who, g) ==
  [who |-> who, val |-> g.m, a |-> g.a, b |-> g.b, wrote |-> gr.wrote,
   flushed |-> ~scheduled]

\* the setter createSignal returns, value => setSignal(node, value),
\* part_001:93, called from user code; a write of the value the signal has
\* does nothing
SetSignal(s, v) ==
  /\ Idle
  /\ Len(queues[Root][1]) < MaxSlot
  /\ scheduled \/ microtasks < MaxMicro
  /\ event' = "step"
  /\ UNCHANGED <<clock, running, children, parent, stack,
                 runs, lastRun, fl, lastFlush, failedDone, fx, ao, ev, nt, pl>>
  /\ IF v = (IF s = "A" THEN gr.a ELSE gr.b)
       THEN UNCHANGED <<gr, queues, scheduled, microtasks, reqs>>
       ELSE /\ gr' = Write(gr, s, v)
            /\ queues' = IF gr.watch /\ gr.ws = "CLEAN"
                           THEN Push(queues, Root, EFFECT_PURE,
                                     [id |-> WatchId, tier |-> EFFECT_PURE])
                           ELSE queues
            /\ scheduled' = Schedule[1]
            /\ microtasks' = Schedule[2]
            /\ reqs' = reqs + (Schedule[2] - microtasks)

\* user code calls the accessor of M
UserRead ==
  /\ Idle
  /\ LET g == MemoAccessor(gr)
     IN gr' = [g EXCEPT !.seen = Sight("user", g), !.wrote = {}]
  /\ event' = "step"
  /\ UNCHANGED <<clock, scheduled, running, queues, children, parent,
                 microtasks, stack, hist, fx, ao, ev, nt, pl>>

\* W is created: a computation whose function calls the accessor of M; it
\* is registered on the queue for its first run
CreateWatcher ==
  /\ Idle
  /\ ~gr.watch
  /\ scheduled \/ microtasks < MaxMicro
  /\ gr' = [gr EXCEPT !.watch = TRUE]
  /\ queues' = Push(queues, Root, EFFECT_PURE,
                    [id |-> WatchId, tier |-> EFFECT_PURE])
  /\ scheduled' = Schedule[1]
  /\ microtasks' = Schedule[2]
  /\ reqs' = reqs + (Schedule[2] - microtasks)
  /\ event' = "step"
  /\ UNCHANGED <<clock, running, children, parent, stack,
                 runs, lastRun, fl, lastFlush, failedDone, fx, ao, ev, nt, pl>>

\* the queue runs W's task: update of W. When W is only CHECK its source M
\* is updated first and W is run again only if M's value differs from the
\* one W has seen; the run calls the accessor of M
RunWatcher ==
  /\ InOwn /\ Cur.id = WatchId
  /\ LET g0 == IF gr.ws = "CHECK" THEN Read(gr) ELSE gr
         rerun == gr.ws = "DIRTY" \/ (gr.ws = "CHECK" /\ g0.m # gr.w)
         g == IF rerun THEN MemoAccessor(g0) ELSE g0
     IN gr' = IF rerun
                THEN [g EXCEPT !.w = g.m, !.ws = "CLEAN", !.wlinked = TRUE,
                               !.seen = Sight("watcher", g)]
                ELSE [g EXCEPT !.ws = "CLEAN"]
  /\ stack' = Advance
  /\ event' = "step"
  /\ UNCHANGED <<clock, scheduled, running, queues, children, parent,
                 microtasks, hist, fx, ao, ev, nt, pl>>

\* flushSync() called from user code
GraphFlushSync ==
  /\ Idle
  /\ clock < MaxFlushes
  /\ stack' = <<FlushSyncFrame>>
  /\ event' = "step"
  /\ UNCHANGED <<clock, scheduled, running, queues, children, parent,
                 microtasks, hist, ext>>

\* the host runs the flushSync microtask
GraphMicrotask ==
  /\ Idle
  /\ microtasks > 0
  /\ clock < MaxFlushes
  /\ microtasks' = microtasks - 1
  /\ stack' = <<FlushSyncFrame>>
  /\ event' = "step"
  /\ UNCHANGED <<clock, scheduled, running, queues, children, parent, hist, ext>>

GraphNext ==
  \/ \E s \in Signals, v \in 0..MaxVal : SetSignal(s, v)
  \/ UserRead
  \/ CreateWatcher
  \/ RunWatcher
  \/ GraphFlushSync
  \/ GraphMicrotask
  \/ RunEnter
  \/ RunOwnDone
  \/ RunReturn
  \/ FlushPure
  \/ FlushInc
  \/ FlushEffects
  \/ FlushExit
  \/ FlushSyncReturn
  \/ FlushSyncCall

GraphSpec == Init /\ [][GraphNext]_vars

\* C18: glitch-free read. Every read of M, by user code or by a computation,
\* returns f of the values A and B have at that read, so never f(A_new,
\* B_old); and once a flush has ended, the computation that reads M holds
\* f(A, B) of the current values.
C18_GlitchFree ==
  /\ gr.seen.who # "none" => gr.seen.val = Compute(gr.seen.a, gr.seen.b)
  /\ (Idle /\ ~scheduled /\ gr.wlinked) => gr.w = Compute(gr.a, gr.b)

\* both signals were set with no read in between, a flush followed, and
\* user code then read M; the computation has seen the same value
C18_Witness ==
  /\ gr.seen.who = "user"
  /\ gr.seen.wrote = Signals
  /\ gr.seen.flushed
  /\ gr.seen.a # 0 /\ gr.seen.b # 0
  /\ gr.wlinked /\ gr.w = gr.seen.val


----------------------------------------------------------------------------
\* Queue.notify on the plain queues of a tree

\* the arguments of a call: notify(node, mask, flags) as createEffect and
\* createRenderEffect call it; the mask and the flags are what varies
NotifyArgs == (1..MaxVal) \X (0..MaxVal)

RECURSIVE Forward(_, _)
\* the calls of notify that q.notify(...args) makes, itself included:
\* this._parent.notify(...args), scheduler.ts:83
Forward(q, args) ==
  <<[q |-> q, args |-> args]>>
    \o IF parent[q] # NoQueue THEN Forward(parent[q], args) ELSE <<>>

\* q.notify(...args) called from outside the queues, on any queue
UserNotify(q, args) ==
  /\ nt' = [q |-> q, args |-> args, calls |-> Forward(q, args),
            result |-> Notify(q)]
  /\ event' = "notify"
  /\ UNCHANGED <<clock, scheduled, running, queues, children, parent,
                 microtasks, stack, hist, fx, ao, ev, gr, pl>>

NotifyNext ==
  \/ \E q \in Queues, args \in NotifyArgs : UserNotify(q, args)
  \/ \E q \in Queues, type \in Tiers : UserEnqueue(q, type)
  \/ \E p \in Queues, c \in Queues \ {Root} : AddChild(p, c)

NotifySpec == Init /\ [][NotifyNext]_vars

\* C19: a call of notify on a plain queue calls notify of the parent with
\* the same arguments, and so on up to a queue without parent, which returns
\* false; the call returns false and changes no slot, child list, parent,
\* running flag, scheduled flag or clock.
C19_NotifyForwards ==
  [][event' = "notify" =>
       LET n == Len(nt'.calls)
       IN /\ nt'.result = FALSE
          /\ n >= 1
          /\ nt'.calls[1].q = nt'.q
          /\ \A i \in 1..n : nt'.calls[i].args = nt'.args
          /\ \A i \in 1..(n - 1) : nt'.calls[i + 1].q = parent[nt'.calls[i].q]
          /\ parent[nt'.calls[n].q] = NoQueue
          /\ UNCHANGED <<clock, scheduled, running, queues, children, parent,
                         microtasks>>]_vars

\* notify was called on a queue two levels below the global queue while
\* tasks were pending, and returned false
C19_Witness ==
  /\ event = "notify"
  /\ Len(nt.calls) = Cardinality(Queues)
  /\ nt.calls[Len(nt.calls)].q = Root
  /\ ~nt.result
  /\ scheduled
  /\ \E q \in Queues : queues[q][1] # <<>>


----------------------------------------------------------------------------
\* the order in which one call of globalQueue.run(type) calls the tasks

RECURSIVE PreOrder(_), Below(_, _)
\* the queues in the order run visits them from q: q itself, then what each
\* child visits, the children taken in the order of _children
PreOrder(q) == <<q>> \o Below(q, 1)
Below(q, k) ==
  IF k > Len(children[q]) THEN <<>>
  ELSE PreOrder(children[q][k]) \o Below(q, k + 1)

Visit(q) == IndexOf(PreOrder(Root), q, 1)

\* C20: within one call of run(type) on the global queue, the task called
\* first is the first of its array and no queue visited before holds a task
\* of the slot; a task of the same queue as the one called before it is the
\* next of the array (so a task appended to the pure slot during the pass
\* is called after those already there); a task of another queue is the
\* first of its array, its queue comes later in the order "own tasks, then
\* each child recursively in the order added", and no queue in between
\* holds a task of the slot.
C20_RunOrder ==
  InOwn =>
    LET now == Visit(Top.q)
        was == IF fl.last = NoLast THEN 0 ELSE Visit(fl.last.q)
    IN /\ now > 0
       /\ IF fl.last # NoLast /\ fl.last.q = Top.q
            THEN Top.i = fl.last.pos + 1
            ELSE /\ Top.i = 1
                 /\ now > was
                 /\ \A n \in (was + 1)..(now - 1) :
                      queues[PreOrder(Root)[n]][Top.type + 1] = <<>>

\* a task of the second child is about to be called after a task of the
\* first child was called in the same pass
C20_Witness ==
  /\ InOwn
  /\ fl.last # NoLast
  /\ Len(children[Root]) > 1
  /\ fl.last.q = children[Root][1]
  /\ Top.q = children[Root][Len(children[Root])]


----------------------------------------------------------------------------
\* the value run(EFFECT_PURE) returns

\* a call of run is at its return statement, scheduler.ts:59
AtReturn ==
  /\ stack # <<>> /\ Top.fn = "run" /\ Top.pc = "children"
  /\ Top.c > Len(children[Top.q])

\* pure work exists at or below q
PureWork(q) == \E d \in Descendants(children, q) : queues[d][1] # <<>>

\* C21: when run(EFFECT_PURE) returns, it returns true if and only if the
\* pure slot of the queue or of one of its descendants is non-empty.
C21_RerunIffWork ==
  (AtReturn /\ Top.type = EFFECT_PURE) => (RunResult(Top) <=> PureWork(Top.q))


----------------------------------------------------------------------------
\* addChild and removeChild called with any two queues

MaxKids == 2       \* length of a _children array

\* Array.prototype.splice(index, 1), index counted from 1
RemoveAt(s, n) == SubSeq(s, 1, n - 1) \o SubSeq(s, n + 1, Len(s))

\* p.addChild(c), scheduler.ts:74-77
AddChildAny(p, c) ==
  /\ Len(children[p]) < MaxKids
  /\ children' = [children EXCEPT ![p] = Append(@, c)]
  /\ parent' = [parent EXCEPT ![c] = p]
  /\ event' = "step"
  /\ UNCHANGED <<clock, scheduled, running, queues, microtasks, stack, hist, ext>>

\* p.removeChild(c), scheduler.ts:78-81
RemoveChild(p, c) ==
  /\ LET index == IndexOf(children[p], c, 1)
     IN children' = IF index >= 1
                      THEN [children EXCEPT ![p] = RemoveAt(@, index)]
                      ELSE children
  /\ event' = "remove"
  /\ UNCHANGED <<clock, scheduled, running, queues, parent, microtasks, stack,
                 hist, ext>>

TreeNext ==
  \/ \E p \in Queues, c \in Queues \ {Root} : AddChildAny(p, c)
  \/ \E p \in Queues, c \in Queues \ {Root} : RemoveChild(p, c)

TreeSpec == Init /\ [][TreeNext]_vars

\* the places where q occurs in a _children array
Places(q) ==
  {pk \in Queues \X (1..MaxKids) :
     pk[2] <= Len(children[pk[1]]) /\ children[pk[1]][pk[2]] = q}

\* C22: the queues form a tree: the parent pointer of q is p if and only if
\* q occurs in the children of p, and q occurs at most once in all the
\* children sequences together.
C22_Tree ==
  \A q \in Queues :
    /\ \A p \in Queues : parent[q] = p <=> \E pk \in Places(q) : pk[1] = p
    /\ Cardinality(Places(q)) <= 1


----------------------------------------------------------------------------
\* createListener(handler, effect), primitives.ts:166-196, under an owner
\* whose queue is the global queue

ListenId == MaxEnq + 5
MaxLog == 6        \* calls of a callback that the history keeps

\* the closure that throughQueue hands to the queue callback for event k
\* (part_000:96), enqueued with EFFECT_USER (primitives.ts:187)
Listening(k) == [id |-> ListenId, tier |-> EFFECT_USER, val |-> k]

\* a next event arrives at the source: notify (primitives.ts:178), then the
\* next of throughQueue
ListenerEmit ==
  /\ Idle
  /\ pl.n < MaxEvents
  /\ scheduled \/ microtasks < MaxMicro
  /\ pl' = [pl EXCEPT !.n = @ + 1]
  /\ queues' = Push(queues, Root, EFFECT_USER, Listening(pl.n + 1))
  /\ scheduled' = Schedule[1]
  /\ microtasks' = Schedule[2]
  /\ reqs' = reqs + (Schedule[2] - microtasks)
  /\ event' = "emit"
  /\ UNCHANGED <<clock, running, children, parent, stack, runs, lastRun, fl,
                 lastFlush, failedDone, fx, ao, ev, gr, nt>>

\* runQueue calls the closure: the next of throughOwner (part_000:114-122)
\* and in it the subscriber's next, which calls effect(e), primitives.ts:193
RunListener ==
  /\ InOwn /\ Cur.id = ListenId
  /\ Len(pl.log) < MaxLog
  /\ pl' = [pl EXCEPT !.log = Append(@, [val |-> Cur.val, slot |-> Top.type])]
  /\ stack' = Advance
  /\ event' = "step"
  /\ UNCHANGED <<clock, scheduled, running, queues, children, parent,
                 microtasks, hist, fx, ao, ev, gr, nt>>

ListenerNext ==
  \/ ListenerEmit
  \/ RunListener
  \/ EventFlushSync
  \/ EventMicrotask
  \/ RunEnter
  \/ RunOwnDone
  \/ RunReturn
  \/ FlushPure
  \/ FlushInc
  \/ FlushEffects
  \/ FlushExit
  \/ FlushSyncReturn
  \/ FlushSyncCall

ListenerSpec == Init /\ [][ListenerNext]_vars

\* how often the callback was called for event k
Calls(k) == Cardinality({i \in 1..Len(pl.log) : pl.log[i].val = k})

\* C23: the effect callback of createListener is called for each event at
\* most once, and exactly once when the flush after the emission is over;
\* every call is made in the user phase of a flush; the calls are in
\* emission order.
C23_ListenerOnce ==
  /\ \A k \in 1..pl.n : Calls(k) <= 1
  /\ (Idle /\ ~scheduled) => \A k \in 1..pl.n : Calls(k) = 1
  /\ \A i \in 1..Len(pl.log) : pl.log[i].slot = EFFECT_USER
  /\ \A i, j \in 1..Len(pl.log) : i < j => pl.log[i].val <= pl.log[j].val


----------------------------------------------------------------------------
\* makeHandler($)(transform), handler.ts:18-37: one EagerComputation
\* `signal` per handler; the queue callback of throughQueue stores the
\* closure in signal._compute and marks the signal dirty

HandleId == MaxEnq + 6

\* signal._notify(STATE_DIRTY): a computation that is not yet dirty is
\* registered on the queue for a run in the pure phase
NotifyDirty(qs) ==
  IF pl.dirty THEN qs
  ELSE Push(qs, Root, EFFECT_PURE, [id |-> HandleId, tier |-> EFFECT_PURE])

\* an event arrives at the source $: the next of throughQueue
\* (part_000:94-97) calls the queue callback, handler.ts:22-26
HandlerEmit ==
  /\ Idle
  /\ pl.n < MaxEvents
  /\ scheduled \/ microtasks < MaxMicro
  /\ pl' = [pl EXCEPT !.n = @ + 1, !.compute = pl.n + 1, !.dirty = TRUE]
  /\ queues' = NotifyDirty(queues)
  /\ scheduled' = Schedule[1]
  /\ microtasks' = Schedule[2]
  /\ reqs' = reqs + (Schedule[2] - microtasks)
  /\ event' = "emit"
  /\ UNCHANGED <<clock, running, children, parent, stack, runs, lastRun, fl,
                 lastFlush, failedDone, fx, ao, ev, gr, nt>>

\* what transform(e) does: it returns a value, calls halt() or throws
\* something else
Results == {"value", "halt", "throw"}

\* the next of throughErrorHandler around the next of transformValue,
\* part_000:133-139 and 205: the downstream call that follows
ThroughErrorHandler(res) ==
  IF res = "value" THEN [kind |-> "next", err |-> "none"]
  ELSE [kind |-> "error", err |-> res]

\* an error observer that passes every error on
UnwrapHaltNot(c) == c
\* unwrapHalt, part_000:157-168: what reaches the subscriber
UnwrapHalt(c) ==
  IF c.kind = "error" /\ c.err = "halt" THEN [kind |-> "none", err |-> "none"]
  ELSE c

\* the queue runs the signal: signal._compute() is the closure stored last,
\* which passes its event on to throughOwner, throughErrorHandler,
\* transformValue(transform) and unwrapHalt, handler.ts:27-30
RunHandler(res) ==
  /\ InOwn /\ Cur.id = HandleId
  /\ Len(pl.log) < MaxLog
  /\ pl' = [pl EXCEPT !.log = Append(@, [val |-> pl.compute, slot |-> Top.type,
                                         res |-> res,
                                         down |-> UnwrapHalt(ThroughErrorHandler(res))]),
                      !.dirty = FALSE]
  /\ stack' = Advance
  /\ event' = "step"
  /\ UNCHANGED <<clock, scheduled, running, queues, children, parent,
                 microtasks, hist, fx, ao, ev, gr, nt>>

HandlerNext ==
  \/ HandlerEmit
  \/ \E res \in Results : RunHandler(res)
  \/ EventFlushSync
  \/ EventMicrotask
  \/ RunEnter
  \/ RunOwnDone
  \/ RunReturn
  \/ FlushPure
  \/ FlushInc
  \/ FlushEffects
  \/ FlushExit
  \/ FlushSyncReturn
  \/ FlushSyncCall

HandlerSpec == Init /\ [][HandlerNext]_vars

\* C24: every event emitted into the source of a handler is passed to
\* transform at most once, exactly once when the flush after its emission is
\* over, and the events are passed in emission order.
C24_NoEventLost ==
  /\ \A k \in 1..pl.n : Calls(k) <= 1
  /\ (Idle /\ ~scheduled) => \A k \in 1..pl.n : Calls(k) = 1
  /\ \A i, j \in 1..Len(pl.log) : i < j => pl.log[i].val < pl.log[j].val




\* C30: an event whose transform calls halt() reaches no subscriber, neither
\* as next nor as error, and raises nothing in the flush; an event whose
\* transform returns is delivered as next, also after a halted one; any
\* other exception of transform is delivered as error.
C30_HaltStops ==
  /\ \A i \in 1..Len(pl.log) :
       /\ pl.log[i].res = "halt" => pl.log[i].down.kind = "none"
       /\ pl.log[i].res = "value" => pl.log[i].down.kind = "next"
       /\ pl.log[i].res = "throw" => pl.log[i].down = [kind |-> "error", err |-> "throw"]
  /\ event # "throw"

\* the transform halted for one event and returned for the next one, which
\* was delivered
C30_Witness ==
  \E i \in 2..Len(pl.log) :
    /\ pl.log[i - 1].res = "halt" /\ pl.log[i - 1].down.kind = "none"
    /\ pl.log[i].res = "value" /\ pl.log[i].down.kind = "next"
    /\ pl.log[i].val > pl.log[i - 1].val
    /\ Idle /\ ~scheduled

----------------------------------------------------------------------------
\* throughQueue(queue)(observer), part_000:86-103, with a queue callback
\* that keeps the functions it is handed and calls them later

MaxThunks == 2     \* upstream calls
MaxCalls == 2      \* calls of one function by the queue callback

Kinds == {"wait", "next", "error"}
\* the GraphContext objects: a retry and a dispose function each
Contexts == {NoContext} \cup [retry : 1..MaxVal, dispose : 1..MaxVal]

\* GraphContext.clone, context.ts:21-23, behind the ?. of part_000:91
Clone(c) == IF c = NoContext THEN NoContext
            ELSE [retry |-> c.retry, dispose |-> c.dispose]

\* a function that calls the observer under the context of its caller
DuringCallers(context, current) == current
\* currentContext while fn runs in withContext(context, fn), context.ts:28-31
During(context, current) == context

\* code under withContext(c, ...) begins or ends
SwitchContext(c) ==
  /\ c # pl.cur
  /\ pl' = [pl EXCEPT !.cur = c]
  /\ event' = "step"
  /\ UNCHANGED <<clock, scheduled, running, queues, children, parent,
                 microtasks, stack, hist, fx, ao, ev, gr, nt>>

\* the upstream calls wait(), next(e) or error(err) of the observer that
\* throughQueue returns: the context is cloned and one function is handed
\* to the queue callback, part_000:90-101
Upstream(kind, e) ==
  /\ Len(pl.handed) < MaxThunks
  /\ kind = "wait" => e = 0
  /\ pl' = [pl EXCEPT
              !.sent = Append(@, [kind |-> kind, val |-> e, ctx |-> pl.cur]),
              !.handed = Append(@, [kind |-> kind, val |-> e,
                                    ctx |-> Clone(pl.cur)]),
              !.ran = Append(@, 0)]
  /\ event' = "upstream"
  /\ UNCHANGED <<clock, scheduled, running, queues, children, parent,
                 microtasks, stack, hist, fx, ao, ev, gr, nt>>

\* the queue callback's side calls the i-th function it was handed:
\* withContext(context, () => observer.wait / next(e) / error(err)); the
\* previous context is current again afterwards, context.ts:29-32
RunThunk(i) ==
  /\ i \in 1..Len(pl.handed)
  /\ pl.ran[i] < MaxCalls
  /\ LET t == pl.handed[i]
     IN pl' = [pl EXCEPT
                 !.ran[i] = @ + 1,
                 !.down = Append(@, [fn |-> i, kind |-> t.kind, val |-> t.val,
                                     ctx |-> During(t.ctx, pl.cur)])]
  /\ event' = "thunk"
  /\ UNCHANGED <<clock, scheduled, running, queues, children, parent,
                 microtasks, stack, hist, fx, ao, ev, gr, nt>>

ThroughNext ==
  \/ \E c \in Contexts : SwitchContext(c)
  \/ \E kind \in Kinds, e \in 0..MaxVal : Upstream(kind, e)
  \/ \E i \in 1..MaxThunks : RunThunk(i)

ThroughSpec == Init /\ [][ThroughNext]_vars

\* the downstream calls that the i-th function has made
DownOf(i) == {n \in 1..Len(pl.down) : pl.down[n].fn = i}

\* C26: an upstream call makes no downstream call and hands exactly one
\* function to the queue callback; each run of that function makes exactly
\* one downstream call, of the kind of the upstream call, with its payload,
\* under the context that was current at the upstream call.
C26_Deferred ==
  /\ Len(pl.handed) = Len(pl.sent)
  /\ \A i \in 1..Len(pl.sent) : Cardinality(DownOf(i)) = pl.ran[i]
  /\ \A n \in 1..Len(pl.down) :
       /\ pl.down[n].fn \in 1..Len(pl.sent)
       /\ pl.down[n].kind = pl.sent[pl.down[n].fn].kind
       /\ pl.down[n].val = pl.sent[pl.down[n].fn].val
       /\ pl.down[n].ctx = pl.sent[pl.down[n].fn].ctx
  /\ event = "upstream" => pl.ran[Len(pl.ran)] = 0

\* an error was handed over under one context and delivered later while
\* another context was current
C26_Witness ==
  \E n \in 1..Len(pl.down) :
    /\ pl.down[n].kind = "error"
    /\ pl.down[n].ctx # NoContext
    /\ pl.down[n].ctx # pl.cur
    /\ event = "thunk"


----------------------------------------------------------------------------
\* throughOwner()(observer), part_000:105-128.  pl.scope is the root that the
\* variable `dispose` disposes (0: the initial () => {}), pl.live the roots
\* created by the operator and not disposed.  The function that
\* throughOwner() returns is applied to each subscribing observer, and all
\* of them share `dispose`.  No GraphContext is current.

MaxScopes == 3     \* roots one operator creates

\* a next that leaves the previous root alone
CallDisposeNot(live, scope) == live
\* dispose(), part_000:115 and 107: owner.dispose() of the root it refers to
\* (part_001:342)
CallDispose(live, scope) == live \ {scope}

\* the downstream call seen last: the roots alive before the upstream call
\* and at the downstream call, and the root the call was made in
Seen(o, kind, e, at, in) ==
  [obs |-> o, kind |-> kind, val |-> e, before |-> pl.live, at |-> at,
   in |-> in]

\* next(e) of the observer wrapped for o, part_000:114-122
OwnerNext(o, e) ==
  /\ pl.made < MaxScopes
  /\ LET new == pl.made + 1
         live == CallDispose(pl.live, pl.scope) \cup {new}
     IN pl' = [pl EXCEPT !.made = new, !.scope = new, !.live = live,
                         !.sight = Seen(o, "next", e, live, new)]
  /\ event' = "next"
  /\ UNCHANGED <<clock, scheduled, running, queues, children, parent,
                 microtasks, stack, hist, fx, ao, ev, gr, nt>>

\* wait() and error(err), part_000:110-113 and 123-126
OwnerPass(o, kind, e) ==
  /\ kind = "wait" => e = 0
  /\ pl' = [pl EXCEPT !.sight = Seen(o, kind, e, pl.live, 0)]
  /\ event' = kind
  /\ UNCHANGED <<clock, scheduled, running, queues, children, parent,
                 microtasks, stack, hist, fx, ao, ev, gr, nt>>

\* the owner in which throughOwner() was called is cleaned up: the cleanup
\* registered at part_000:107 runs
OwnerCleanup ==
  /\ ~pl.cleaned
  /\ pl' = [pl EXCEPT !.cleaned = TRUE,
                      !.live = CallDispose(pl.live, pl.scope)]
  /\ event' = "cleanup"
  /\ UNCHANGED <<clock, scheduled, running, queues, children, parent,
                 microtasks, stack, hist, fx, ao, ev, gr, nt>>

OwnerNextStep ==
  \/ \E o \in Obs, e \in 1..MaxVal : OwnerNext(o, e)
  \/ \E o \in Obs, kind \in {"wait", "error"}, e \in 0..MaxVal :
       OwnerPass(o, kind, e)
  \/ OwnerCleanup

OwnerSpec == Init /\ [][OwnerNextStep]_vars

\* C27: at most one root of the operator is alive; a value is delivered
\* downstream inside a new root, when the root of the previous next has
\* been disposed; wait and error dispose nothing; after the cleanup of the
\* owner in which the operator was created no root is alive.
C27_OneLiveScope ==
  /\ Cardinality(pl.live) <= 1
  /\ pl.sight.kind = "next" =>
       /\ pl.sight.in \notin pl.sight.before
       /\ pl.sight.at = {pl.sight.in}
  /\ pl.sight.kind \in {"wait", "error"} => pl.sight.at = pl.sight.before
  /\ event = "cleanup" => pl.live = {}

\* a second value was delivered while the root of the first was alive just
\* before, and the owner was cleaned up afterwards
C27_Witness ==
  /\ pl.sight.kind = "next"
  /\ pl.sight.before # {}
  /\ pl.sight.in > 1
  /\ event = "cleanup"


----------------------------------------------------------------------------
\* createAsyncEvent(source, asyncFn), primitives.ts:57-82, under an owner
\* whose queue is the global queue: throughQueue, throughOwner,
\* transformValue(asyncFn), unwrapPromise

AsyncEventId == MaxEnq + 7

\* a resumption that never looks at the flag
SkipsNever(k) == FALSE
\* `if (aborted) return` of the promise made for event k, part_000:35 and 38
Skips(k) == pl.prom[k].aborted

\* an event arrives at the source: the next of throughQueue enqueues its
\* closure with EFFECT_PURE, primitives.ts:66-68
AsyncEmit ==
  /\ Idle
  /\ pl.n < MaxEvents
  /\ scheduled \/ microtasks < MaxMicro
  /\ pl' = [pl EXCEPT !.n = @ + 1]
  /\ queues' = Push(queues, Root, EFFECT_PURE,
                    [id |-> AsyncEventId, tier |-> EFFECT_PURE, val |-> pl.n + 1])
  /\ scheduled' = Schedule[1]
  /\ microtasks' = Schedule[2]
  /\ reqs' = reqs + (Schedule[2] - microtasks)
  /\ event' = "emit"
  /\ UNCHANGED <<clock, running, children, parent, stack, runs, lastRun, fl,
                 lastFlush, failedDone, fx, ao, ev, gr, nt>>

\* runQueue calls the closure.  The next of throughOwner disposes the root
\* of the previous event, whose cleanups set the `aborted` of the promise
\* made in it (part_000:28), and creates a root; in it asyncFn(e) is called
\* and unwrapPromise takes the result: a promise is waited for, any other
\* value goes downstream at once (part_000:25-43)
RunAsyncEvent(promise) ==
  /\ InOwn /\ Cur.id = AsyncEventId
  /\ LET k == Cur.val
         new == pl.made + 1
     IN pl' = [pl EXCEPT
                 !.made = new, !.scope = new,
                 !.live = CallDispose(pl.live, pl.scope) \cup {new},
                 !.last = k,
                 !.prom = [j \in 1..MaxEvents |->
                    IF j = k
                      THEN [st |-> IF promise THEN "pending" ELSE "value",
                            root |-> new, aborted |-> FALSE,
                            got |-> IF promise THEN "none" ELSE "next",
                            latest |-> IF promise THEN 0 ELSE k]
                    ELSE IF pl.prom[j].st = "pending" /\ pl.prom[j].root = pl.scope
                      THEN [pl.prom[j] EXCEPT !.aborted = TRUE]
                      ELSE pl.prom[j]]]
  /\ stack' = Advance
  /\ event' = "step"
  /\ UNCHANGED <<clock, scheduled, running, queues, children, parent,
                 microtasks, hist, fx, ao, ev, gr, nt>>

\* the promise made for event k is fulfilled or rejected: the function given
\* to then or to catch runs, part_000:34-40
SettleEvent(k, how) ==
  /\ Idle
  /\ pl.prom[k].st = "pending"
  /\ pl' = [pl EXCEPT !.prom[k] =
              [@ EXCEPT !.st = "settled",
                        !.got = IF Skips(k) THEN "none" ELSE how,
                        !.latest = IF Skips(k) THEN 0 ELSE pl.last]]
  /\ event' = "settle"
  /\ UNCHANGED <<clock, scheduled, running, queues, children, parent,
                 microtasks, stack, hist, fx, ao, ev, gr, nt>>

AsyncEventNext ==
  \/ AsyncEmit
  \/ \E promise \in BOOLEAN : RunAsyncEvent(promise)
  \/ \E k \in 1..MaxEvents, how \in {"next", "error"} : SettleEvent(k, how)
  \/ EventFlushSync
  \/ EventMicrotask
  \/ RunEnter
  \/ RunOwnDone
  \/ RunReturn
  \/ FlushPure
  \/ FlushInc
  \/ FlushEffects
  \/ FlushExit
  \/ FlushSyncReturn
  \/ FlushSyncCall

AsyncEventSpec == Init /\ [][AsyncEventNext]_vars

\* C28: what a promise settles to goes downstream, as next or as error, only
\* when no later event has been processed since the promise was made.
C28_LatestWins ==
  \A k \in 1..MaxEvents :
    pl.prom[k].got # "none" => pl.prom[k].latest = k

\* the promise of the first event settled after the second event had been
\* processed, and was dropped; the promise of the second event was delivered
C28_Witness ==
  \E k \in 2..MaxEvents :
    /\ pl.prom[k - 1].st = "settled" /\ pl.prom[k - 1].aborted
    /\ pl.prom[k - 1].got = "none"
    /\ pl.prom[k].st = "settled" /\ pl.prom[k].got = "error"
    /\ event = "settle"

----------------------------------------------------------------------------
\* withContext and getContext, context.ts:26-38.  pl.cur is currentContext,
\* pl.frames the activations of withContext whose fn has not ended, with
\* their local previousContext, and pl.ended the activation that ended last.

MaxDepth == 3      \* nested calls of withContext

\* getContext(), context.ts:36-38
GetContext == pl.cur

\* currentContext = previousContext, context.ts:32
Restore(previousContext, current) == previousContext

\* withContext(context, fn) is called and fn begins, context.ts:29-31
WithContext(context) ==
  /\ Len(pl.frames) < MaxDepth
  /\ pl' = [pl EXCEPT
              !.frames = Append(@, [previousContext |-> pl.cur,
                                    context |-> context]),
              !.cur = context]
  /\ event' = "with"
  /\ UNCHANGED <<clock, scheduled, running, queues, children, parent,
                 microtasks, stack, hist, fx, ao, ev, gr, nt>>

\* the fn of the innermost activation returns: line 32 restores the context
\* and withContext returns
FnReturn ==
  /\ pl.frames # <<>>
  /\ LET f == pl.frames[Len(pl.frames)]
         c == Restore(f.previousContext, pl.cur)
     IN pl' = [pl EXCEPT
                 !.frames = SubSeq(@, 1, Len(@) - 1),
                 !.cur = c,
                 !.ended = [how |-> "returned", before |-> f.previousContext,
                            after |-> c]]
  /\ event' = "returned"
  /\ UNCHANGED <<clock, scheduled, running, queues, children, parent,
                 microtasks, stack, hist, fx, ao, ev, gr, nt>>

\* the fn of the innermost activation ends with an exception, its own or
\* one of a nested call that it did not catch: line 31 is not in a try, so
\* the exception leaves withContext before line 32
FnThrow ==
  /\ pl.frames # <<>>
  /\ LET f == pl.frames[Len(pl.frames)]
     IN pl' = [pl EXCEPT
                 !.frames = SubSeq(@, 1, Len(@) - 1),
                 !.ended = [how |-> "threw", before |-> f.previousContext,
                            after |-> pl.cur]]
  /\ event' = "threw"
  /\ UNCHANGED <<clock, scheduled, running, queues, children, parent,
                 microtasks, stack, hist, fx, ao, ev, gr, nt>>

ContextNext ==
  \/ \E context \in Contexts : WithContext(context)
  \/ FnReturn
  \/ FnThrow

ContextSpec == Init /\ [][ContextNext]_vars

\* C31: while the fn of a withContext call runs, getContext() is the context
\* of that call, and when a withContext call has ended, by return or by
\* exception, the current context is the one from before the call.
C31_ScopedContext ==
  /\ pl.frames # <<>> => GetContext = pl.frames[Len(pl.frames)].context
  /\ pl.ended.how # "none" => pl.ended.after = pl.ended.before

----------------------------------------------------------------------------
\* One Subject without sources, core.ts:31-73: ev.waiting is its flag,
\* ev.observers its Set in insertion order.  ev.acts are the calls of next,
\* wait and error in progress: `at` is the position of observers.forEach and
\* `in` says that the observer at that position is running; an observer may
\* call the Subject again from its callback.  ev.rcv are the calls received
\* (fwd: the call began to forward) and ev.heard what each observer was
\* called with.  Observers subscribe and clean up between two calls.

MaxRcv == 4        \* calls of next, wait and error on the Subject
MaxNest == 2       \* calls in progress, one inside the other

\* a wait that is forwarded whatever the flag says
AlreadyWaitingNever(waiting) == FALSE
\* if (this.waiting) return, core.ts:65
AlreadyWaiting(waiting) == waiting

\* subscribe(observer) on the Subject: this.observers.add, core.ts:39-40
SubjectSubscribe(o) ==
  /\ ev.acts = <<>>
  /\ o \notin SeqToSet(ev.observers)
  /\ ev' = [ev EXCEPT !.observers = Append(@, o)]
  /\ event' = "subscribe"
  /\ UNCHANGED <<clock, scheduled, running, queues, children, parent,
                 microtasks, stack, hist, fx, ao, gr, nt, pl>>

\* the cleanup registered at subscription: this.observers.delete,
\* core.ts:49-50
SubjectCleanup(o) ==
  /\ ev.acts = <<>>
  /\ o \in SeqToSet(ev.observers)
  /\ ev' = [ev EXCEPT !.observers = SelectSeq(@, LAMBDA x : x # o)]
  /\ event' = "cleanup"
  /\ UNCHANGED <<clock, scheduled, running, queues, children, parent,
                 microtasks, stack, hist, fx, ao, gr, nt, pl>>

\* next(value), wait() or error(err) is called on the Subject, by its
\* emitter or by the observer that is running: core.ts:59-72 up to forEach
SubjectCall(kind) ==
  /\ Len(ev.rcv) < MaxRcv
  /\ Len(ev.acts) < MaxNest
  /\ ev.acts # <<>> => ev.acts[Len(ev.acts)].in
  /\ LET returns == kind = "wait" /\ AlreadyWaiting(ev.waiting)
     IN ev' = [ev EXCEPT
                 !.waiting = IF kind = "next" THEN FALSE
                             ELSE IF kind = "wait" THEN TRUE
                             ELSE @,
                 !.rcv = Append(@, [kind |-> kind, fwd |-> ~returns]),
                 !.acts = IF returns THEN @
                          ELSE Append(@, [kind |-> kind, at |-> 1,
                                          in |-> FALSE])]
  /\ event' = kind
  /\ UNCHANGED <<clock, scheduled, running, queues, children, parent,
                 microtasks, stack, hist, fx, ao, gr, nt, pl>>

\* forEach calls the next observer: observer.next / wait / error,
\* core.ts:61, 67, 71
CallObserver ==
  /\ ev.acts # <<>>
  /\ LET n == Len(ev.acts)
         a == ev.acts[n]
     IN /\ ~a.in /\ a.at <= Len(ev.observers)
        /\ ev' = [ev EXCEPT !.acts[n].in = TRUE,
                            !.heard[ev.observers[a.at]] = Append(@, a.kind)]
  /\ event' = "observer"
  /\ UNCHANGED <<clock, scheduled, running, queues, children, parent,
                 microtasks, stack, hist, fx, ao, gr, nt, pl>>

\* the observer returns and forEach goes on
ObserverReturn ==
  /\ ev.acts # <<>>
  /\ LET n == Len(ev.acts)
     IN /\ ev.acts[n].in
        /\ ev' = [ev EXCEPT !.acts[n].in = FALSE, !.acts[n].at = @ + 1]
  /\ event' = "step"
  /\ UNCHANGED <<clock, scheduled, running, queues, children, parent,
                 microtasks, stack, hist, fx, ao, gr, nt, pl>>

\* the observer throws: the exception ends forEach and the call of the
\* Subject; the observers after it are not called
ObserverThrow ==
  /\ ev.acts # <<>>
  /\ ev.acts[Len(ev.acts)].in
  /\ ev' = [ev EXCEPT !.acts = SubSeq(@, 1, Len(@) - 1)]
  /\ event' = "threw"
  /\ UNCHANGED <<clock, scheduled, running, queues, children, parent,
                 microtasks, stack, hist, fx, ao, gr, nt, pl>>

\* forEach is through and the call of the Subject returns
SubjectReturn ==
  /\ ev.acts # <<>>
  /\ LET a == ev.acts[Len(ev.acts)]
     IN ~a.in /\ a.at > Len(ev.observers)
  /\ ev' = [ev EXCEPT !.acts = SubSeq(@, 1, Len(@) - 1)]
  /\ event' = "returned"
  /\ UNCHANGED <<clock, scheduled, running, queues, children, parent,
                 microtasks, stack, hist, fx, ao, gr, nt, pl>>

SubjectNext ==
  \/ \E o \in Obs : SubjectSubscribe(o)
  \/ \E o \in Obs : SubjectCleanup(o)
  \/ \E kind \in Kinds : SubjectCall(kind)
  \/ CallObserver
  \/ ObserverReturn
  \/ ObserverThrow
  \/ SubjectReturn

SubjectSpec == Init /\ [][SubjectNext]_vars

\* the wait and next calls among the first n calls received
WaitOrNext(n) == {i \in 1..n : ev.rcv[i].kind \in {"wait", "next"}}
\* the latest of them was a wait
LastWasWait(n) ==
  LET ix == WaitOrNext(n)
  IN ix # {} /\ ev.rcv[CHOOSE i \in ix : \A j \in ix : j <= i].kind = "wait"

\* C32: the flag `waiting` is true exactly when the last wait or next that
\* the Subject received was a wait; a wait is forwarded exactly when no wait
\* was received since the last next (or since construction), so that at
\* most one wait is forwarded between two consecutive next calls; next and
\* error are always forwarded.
C32_WaitOnce ==
  /\ ev.waiting <=> LastWasWait(Len(ev.rcv))
  /\ \A i \in 1..Len(ev.rcv) :
       ev.rcv[i].fwd <=> ~(ev.rcv[i].kind = "wait" /\ LastWasWait(i - 1))

\* a wait was dropped while waiting, the next cleared the flag and the
\* following wait reached an observer again
C32_Witness ==
  /\ Len(ev.rcv) = 4
  /\ ev.rcv[1] = [kind |-> "wait", fwd |-> TRUE]
  /\ ev.rcv[2] = [kind |-> "wait", fwd |-> FALSE]
  /\ ev.rcv[3] = [kind |-> "next", fwd |-> TRUE]
  /\ ev.rcv[4] = [kind |-> "wait", fwd |-> TRUE]
  /\ ev.acts = <<>>
  /\ \E o \in Obs : ev.heard[o] = <<"wait", "next", "wait">>

----------------------------------------------------------------------------
\* resolve(fn), part_001:358-372.  fx.promise is the promise that resolve
\* returns, fx.disposed says that the root made by createRoot was disposed,
\* fx.outs are the runs of fn so far.  The body of fn is an input: it
\* returns a value, raises NotReady or throws.

\* the promise after res(v) or rej(err): only a pending promise changes
Res(p, v) == IF p.st = "pending" THEN [st |-> "resolved", val |-> v] ELSE p
Rej(p) == IF p.st = "pending" THEN [st |-> "rejected", val |-> 0] ELSE p

\* a function that keeps its root
ReachesDisposeNever(out) == FALSE
\* dispose() at part_001:369 is reached unless NotReady was rethrown at 366
ReachesDispose(out) == out # "notready"

\* resolve(fn) is called: the promise, the root and the computation are
\* made, part_001:359-361
CreateResolve ==
  /\ Idle
  /\ fx.kind = "none"
  /\ fx' = [NoFx EXCEPT !.kind = "resolve", !.dirty = TRUE]
  /\ UNCHANGED <<ao, ev, gr, nt, pl>>
  /\ Register
  /\ event' = "step"
  /\ UNCHANGED <<clock, running, children, parent, stack,
                 runs, lastRun, fl, lastFlush, failedDone>>

\* the function given to computed() runs, part_001:361-370
RunResolve(out, v) ==
  /\ InOwn /\ Cur.id = NodeId
  /\ fx.kind = "resolve"
  /\ out = "ok" \/ v = 1
  /\ fx' = [fx EXCEPT
              !.dirty = FALSE,
              !.outs = Append(@, [out |-> out, val |-> IF out = "ok" THEN v ELSE 0]),
              !.promise = IF out = "ok" THEN Res(@, v)
                          ELSE IF out = "error" THEN Rej(@)
                          ELSE @,
              !.disposed = @ \/ ReachesDispose(out)]
  /\ stack' = Advance
  /\ event' = "step"
  /\ UNCHANGED <<clock, scheduled, running, queues, children, parent,
                 microtasks, hist, ao, ev, gr, nt, pl>>

ResolveNext ==
  \/ CreateResolve
  \/ WriteSource
  \/ EffectFlushSync
  \/ EffectMicrotask
  \/ \E out \in Outcomes, v \in 1..MaxVal : RunResolve(out, v)
  \/ RunEnter
  \/ RunOwnDone
  \/ RunReturn
  \/ FlushPure
  \/ FlushInc
  \/ FlushEffects
  \/ FlushExit
  \/ FlushSyncReturn
  \/ FlushSyncCall

ResolveSpec == Init /\ [][ResolveNext]_vars

\* the runs of fn that did not raise NotReady
Outcome == {i \in 1..Len(fx.outs) : fx.outs[i].out # "notready"}

====
